---------------------------- MODULE Spec2Model ----------------------------
(***************************************************************************)
(* Model of the cognition backend: the interaction ledger, metrics updater *)
(* and statistics (backend/src/routes/interactions.js), the batch          *)
(* data-access layer (backend/src/config/aws.js), the fact feed, writers   *)
(* and trending score (backend/src/routes/facts.js) and the recommender    *)
(* (backend/src/routes/recommendations.js).                                *)
(*                                                                         *)
(* Every store call (docClient.get/put/query/update/delete/batchGet/...)   *)
(* is one atomic step; the code between two awaits runs with it.  A store  *)
(* call either answers or throws; both outcomes are separate actions.      *)
(*                                                                         *)
(* Each subsystem has its own specification.  A specification leaves the   *)
(* variables of the other subsystems at their quiescent value.             *)
(***************************************************************************)
EXTENDS Integers, Sequences, FiniteSets

(***************************************************************************)
(* Bounds of the model.                                                    *)
(***************************************************************************)
\* total number of HTTP requests served in one behaviour
MaxRequests == 2
\* client timestamps are drawn from 1..MaxTs
MaxTs == 2

(***************************************************************************)
(* Interaction ledger and metrics updater: interactions.js                 *)
(***************************************************************************)
VARIABLES
  facts,     \* FACTS table: fact id -> counters and popularity (in half points)
  ledger,    \* INTERACTIONS table: set of entries, key (userId, timestamp)
  pc,        \* per request handler: the await it is suspended at
  req,       \* per request handler: the request being served
  oppItems,  \* per request handler: result.Items still to be deleted
  mctx,      \* per request handler: arguments of the running updateFactMetrics
  snap,      \* per request handler: `fact` read by updatePopularityScore
  resp,      \* per request handler: HTTP status of the last response (0: none)
  log,       \* per request handler: logger.error lines of the current request
  pre,       \* per request handler: the store as it was when the request arrived
  nreq       \* number of requests started

ledgerVars == <<facts, ledger, pc, req, oppItems, mctx, snap, resp, log, pre, nreq>>

\* batchGetItems (aws.js)
VARIABLES
  bgPc,         \* "idle", "start", "request" (awaiting docClient.batchGet), "done", "thrown"
  bgKeys,       \* keys: the keys asked for
  bgExisting,   \* the keys that have an item in the table
  bgI,          \* i: index of the first key of the current chunk
  bgRemaining,  \* remainingKeys
  bgAttempt,    \* attempt
  bgResults,    \* allResults
  bgResp,       \* kind of the last store answer: "none", "complete", "partial", "error"
  bgDelay,      \* the delay last waited, in ms (0: none yet)
  bgDropped,    \* keys of chunks whose loop ended with keys still unprocessed
  bgError       \* the error thrown to the caller (NoError: none)

bgVars == <<bgPc, bgKeys, bgExisting, bgI, bgRemaining, bgAttempt, bgResults, bgResp,
            bgDelay, bgDropped, bgError>>

\* batchWriteItems, batchDeleteItems (aws.js)
VARIABLES
  bwPc,         \* "idle", "start", "request" (awaiting docClient.batchWrite), "done", "thrown"
  bwItems,      \* items: the items (keys) to write
  bwOp,         \* operation: "put" or "delete"
  bwTable,      \* per key: "absent", "old" (an item written earlier) or "new" (the item of this call)
  bwB,          \* index of the current batch in batches
  bwRemaining,  \* remainingItems
  bwAttempt,    \* attempt
  bwResp,       \* kind of the last store answer
  bwDelay       \* the delay last waited, in ms (0: none yet)

bwVars == <<bwPc, bwItems, bwOp, bwTable, bwB, bwRemaining, bwAttempt, bwResp, bwDelay>>

\* paginatedQuery (aws.js)
VARIABLES
  pqPc,          \* "idle", "start", "query" (awaiting docClient.query), "done"
  pqPageSize,    \* pageSize
  pqMaxResults,  \* maxResults
  pqData,        \* the items the key condition selects are 1..pqData, in index order
  pqMatch,       \* the items among them that pass params.FilterExpression
  pqResults,     \* allResults
  pqLEK,         \* lastEvaluatedKey: the last item evaluated (0: null)
  pqScanned,     \* totalScanned
  pqPage         \* result.Items of the last call (none when it threw)

pqVars == <<pqPc, pqPageSize, pqMaxResults, pqData, pqMatch, pqResults, pqLEK, pqScanned,
            pqPage>>

\* performTransactionWrite (aws.js)
VARIABLES
  txPc,        \* "idle", "start", "request" (awaiting docClient.transactWrite), "returned", "thrown"
  txAttempt,   \* attempt
  txCalls,     \* number of transactWrite requests answered so far
  txOutcomes,  \* per request, in order: NoError (it resolved) or the error it raised
  txDelays,    \* the delays waited so far, in ms
  txError      \* the error thrown to the caller (NoError: none)

txVars == <<txPc, txAttempt, txCalls, txOutcomes, txDelays, txError>>

\* GET /recommendations/:userId (recommendations.js)
VARIABLES
  rcPc,          \* "idle", "start", or the store call awaited, or "done"
  rcFacts,       \* FACTS table: the facts in storage order; position = id
  rcHistory,     \* INTERACTIONS table: the entries of the requesting user
  rcCategories,  \* USERS table: user.preferences.categories
  rcLimit,       \* parseInt(limit)
  rcInteractions,  \* userInteractions
  rcScores,      \* categoryScores, in half points
  rcIdx,         \* position in likedCategories of the category being queried
  rcAllFacts,    \* allFacts (fact ids)
  rcSource,      \* where the response came from: "none", "ranked", "fallback"
  rcResult,      \* the facts of the response (fact ids)
  rcStatus       \* HTTP status of the response (0: none yet)

rcVars == <<rcPc, rcFacts, rcHistory, rcCategories, rcLimit, rcInteractions, rcScores,
            rcIdx, rcAllFacts, rcSource, rcResult, rcStatus>>

\* batchQueryMultipleGSI (aws.js)
VARIABLES
  gqPc,        \* "idle", "start", "running" (awaiting Promise.allSettled), "done"
  gqData,      \* per key condition: the Items its query returns when it answers
  gqBranch,    \* per key condition: the state of its async function
  gqResults    \* allResults

gqVars == <<gqPc, gqData, gqBranch, gqResults>>

\* PUT /facts/:id (facts.js) and batchUpdateFactMetrics (aws.js); both write FACTS
VARIABLES
  fmPc,       \* "idle", "put_get", "put_update" or "bulk_tx": the store call awaited
  fmReq,      \* the running operation: the fact and the values it writes
  fmAttempt,  \* attempt of the performTransactionWrite of batchUpdateFactMetrics
  fmStatus    \* HTTP status of the last PUT response (0: none)

fmVars == <<fmPc, fmReq, fmAttempt, fmStatus>>

\* GET /facts (facts.js): the feed and its continuation token
VARIABLES
  fdPc,        \* "idle", "query" (awaiting docClient.query), "readFacts" (awaiting getReadFactsForUser)
  fdLastKey,   \* req.query.lastKey of the request served last (<<>>: none)
  fdExclude,   \* userId && excludeRead of that request
  fdStartKey,  \* params.ExclusiveStartKey of that request (NoKey: not set)
  fdLEK,       \* result.LastEvaluatedKey of the last query that answered (NoKey: none)
  fdHasMore,   \* pagination.hasMore of the last page sent
  fdNextKey,   \* pagination.nextKey of the last page sent (<<>>: null)
  fdStatus     \* HTTP status of the last response (0: none yet)

fdVars == <<fdPc, fdLastKey, fdExclude, fdStartKey, fdLEK, fdHasMore, fdNextKey, fdStatus>>

\* GET /interactions/stats/:factId (interactions.js)
VARIABLES
  stPc,      \* "idle" or "query" (awaiting docClient.query)
  stFactId,  \* req.params.factId of the request served last
  stStats,   \* the stats object of the last response (NoStats: none)
  stStatus   \* HTTP status of the last response (0: none yet)

stVars == <<stPc, stFactId, stStats, stStatus>>

\* calculateTrendingScore (facts.js), applied to two copies of a fact that differ in age
VARIABLES
  trPc,      \* "idle", "input" (the facts are given), "done" (the scores are computed)
  trFact,    \* popularity (half points), likes, shares, views of both facts
  trAges,    \* ageInHours of the younger and of the older fact
  trScores   \* their trending scores

trVars == <<trPc, trFact, trAges, trScores>>

\* calculateSimilarityScore (recommendations.js)
VARIABLES
  smPc,      \* "idle", "input", "done"
  smSource,  \* sourceFact
  smTarget,  \* targetFact
  smScore    \* the score returned

smVars == <<smPc, smSource, smTarget, smScore>>

\* GET /facts (facts.js): the query strategy and the filters of one request
VARIABLES
  fpPc,       \* "idle", "start", "query", "readFacts" (the store call awaited), "done"
  fpTable,    \* FACTS table: id -> category, difficulty, popularity, createdAt
  fpReads,    \* INTERACTIONS table: the facts the requesting user has a read entry on
  fpReq,      \* req.query
  fpParams,   \* params of the query on FACTS
  fpCalls,    \* the tables of the docClient.query calls issued, in order
  fpItems,    \* result.Items (fact ids)
  fpFacts,    \* facts of the response (fact ids)
  fpStatus    \* HTTP status of the response (0: none yet)

fpVars == <<fpPc, fpTable, fpReads, fpReq, fpParams, fpCalls, fpItems, fpFacts, fpStatus>>

\* the client's response cache and ApiService (mobile client, unnamed/part_005)
VARIABLES
  ccPc,      \* "idle", or the request the client awaits: "recs", "facts", "post", "prefs"
  ccCache,   \* the Map of ApiCache in insertion order: key, data, timestamp, expiresAt
  ccNow,     \* Date.now(), in units of 5 minutes
  ccReq,     \* the arguments of the call in progress or made last
  ccDone,    \* the writes completed so far: recordInteraction / updateUserPreferences
             \* of the user, and likes or dislikes
  ccAnswer   \* what the last call returned: where from, and the data
ccVars == <<ccPc, ccCache, ccNow, ccReq, ccDone, ccAnswer>>

\* analyzeEngagementPatterns (interactions.js): the day streak
VARIABLES
  skPc,      \* "idle", "input" (the interactions are given), "done"
  skDays,    \* the local calendar day of each interaction's timestamp
  skNow,     \* new Date(): hours since the midnight that begins day 0
  skStreak   \* patterns.streakDays
skVars == <<skPc, skDays, skNow, skStreak>>

vars == <<ledgerVars, bgVars, bwVars, pqVars, txVars, rcVars, gqVars, fmVars, fdVars,
         stVars, trVars, smVars, fpVars, ccVars, skVars>>

\* what the actions of one subsystem leave alone
ledgerFrame == <<bgVars, bwVars, pqVars, txVars, rcVars, gqVars, fmVars,
  fdVars, stVars, trVars, smVars,
  fpVars,
  ccVars,
  skVars>>
bgFrame == <<ledgerVars, bwVars, pqVars, txVars, rcVars, gqVars, fmVars,
  fdVars, stVars, trVars, smVars,
  fpVars,
  ccVars,
  skVars>>
bwFrame == <<ledgerVars, bgVars, pqVars, txVars, rcVars, gqVars, fmVars,
  fdVars, stVars, trVars, smVars,
  fpVars,
  ccVars,
  skVars>>
pqFrame == <<ledgerVars, bgVars, bwVars, txVars, rcVars, gqVars, fmVars,
  fdVars, stVars, trVars, smVars,
  fpVars,
  ccVars,
  skVars>>
txFrame == <<ledgerVars, bgVars, bwVars, pqVars, rcVars, gqVars, fmVars,
  fdVars, stVars, trVars, smVars,
  fpVars,
  ccVars,
  skVars>>
rcFrame == <<ledgerVars, bgVars, bwVars, pqVars, txVars, gqVars, fmVars,
  fdVars, stVars, trVars, smVars,
  fpVars,
  ccVars,
  skVars>>
gqFrame == <<ledgerVars, bgVars, bwVars, pqVars, txVars, rcVars, fmVars,
  fdVars, stVars, trVars, smVars,
  fpVars,
  ccVars,
  skVars>>
\* PUT /facts/:id and batchUpdateFactMetrics touch the FACTS table only
fmFrame == <<ledger, pc, req, oppItems, mctx, snap, resp, log, pre,
             bgVars, bwVars, pqVars, txVars, rcVars, gqVars,
  fdVars, stVars, trVars, smVars,
  fpVars,
  ccVars,
  skVars>>
fdFrame == <<ledgerVars, bgVars, bwVars, pqVars, txVars, rcVars, gqVars, fmVars,
  stVars, trVars, smVars,
  fpVars,
  ccVars,
  skVars>>
trFrame == <<ledgerVars, bgVars, bwVars, pqVars, txVars, rcVars, gqVars, fmVars, fdVars,
  stVars, smVars,
  fpVars,
  ccVars,
  skVars>>
smFrame == <<ledgerVars, bgVars, bwVars, pqVars, txVars, rcVars, gqVars, fmVars, fdVars,
  stVars, trVars,
  fpVars,
  ccVars,
  skVars>>
stFrame == <<ledgerVars, bgVars, bwVars, pqVars, txVars, rcVars, gqVars, fmVars, fdVars,
  trVars, smVars,
  fpVars,
  ccVars,
  skVars>>
fpFrame == <<ledgerVars, bgVars, bwVars, pqVars, txVars, rcVars, gqVars, fmVars, fdVars,
  stVars, trVars, smVars, ccVars,
  skVars>>
ccFrame == <<ledgerVars, bgVars, bwVars, pqVars, txVars, rcVars, gqVars, fmVars, fdVars,
  stVars, trVars, smVars, fpVars, skVars>>
skFrame == <<ledgerVars, bgVars, bwVars, pqVars, txVars, rcVars, gqVars, fmVars, fdVars,
  stVars, trVars, smVars, fpVars, ccVars>>

Procs == {1, 2}
Users == {"u1", "u2"}
\* facts present in the FACTS table
FactIds == {"f1"}
\* fact ids a client may send; "f0" is not in the table
RequestFactIds == FactIds \cup {"f0"}
Types == {"like", "dislike", "share", "read", "view"}
Timestamps == 1..MaxTs

NoRequest == [op |-> "none", userId |-> "u1", factId |-> "f1", type |-> "view", timestamp |-> 1]
NoMetrics == [type |-> "view", delta |-> 0, ret |-> "none"]
NoSnap == [likes |-> 0, dislikes |-> 0, shares |-> 0, reads |-> 0, views |-> 0]
NoPre == [hadOpposite |-> FALSE, oppositeCount |-> 0]

metricMap(type) ==
  CASE type = "like" -> "likes"
    [] type = "dislike" -> "dislikes"
    [] type = "share" -> "shares"
    [] type = "read" -> "reads"
    [] type = "view" -> "views"

oppositeTypeOf(type) == IF type = "like" THEN "dislike" ELSE "like"

Max2(a, b) == IF a >= b THEN a ELSE b
Min2(a, b) == IF a <= b THEN a ELSE b

\* rawScore in half points: 2 * (likes*3 + shares*5 + reads*1 + views*0.5 - dislikes*2)
rawScore(fact) ==
  (fact.likes * 6) + (fact.shares * 10) + (fact.reads * 2) + (fact.views * 1) - (fact.dislikes * 4)

\* the mutant of popularityOf: no upper cap
popularityOfNoCap(fact) == Max2(0, rawScore(fact))

\* popularity in half points: Math.min(100, Math.max(0, rawScore))
popularityOf(fact) == Min2(200, Max2(0, rawScore(fact)))

countersOf(fact) ==
  [likes |-> fact.likes, dislikes |-> fact.dislikes, shares |-> fact.shares,
   reads |-> fact.reads, views |-> fact.views]

\* a fact as stored after `shares` shares: popularity 0 at creation, then recomputed
storedFact(shares) ==
  LET c == [likes |-> 0, dislikes |-> 0, shares |-> shares, reads |-> 0, views |-> 0]
  IN [likes |-> 0, dislikes |-> 0, shares |-> shares, reads |-> 0, views |-> 0,
      popularity |-> popularityOf(c)]

\* share counts a fact starts a behaviour with: fresh, or shared up to the cap
InitShares == {0, 20}

\* entries of `userId` matching the filter factId = :factId AND #type = :type
queryItems(userId, factId, type) ==
  {e \in ledger : e.userId = userId /\ e.factId = factId /\ e.type = type}

\* the timestamps of a set of entries of one user, ascending (the sort key order)
RECURSIVE sortedTimestamps(_)
sortedTimestamps(S) ==
  IF S = {} THEN <<>>
  ELSE LET m == CHOOSE t \in S : \A o \in S : t <= o
       IN <<m>> \o sortedTimestamps(S \ {m})

\* docClient.put: an item with the same key (userId, timestamp) is replaced
putItem(L, e) ==
  {o \in L : ~(o.userId = e.userId /\ o.timestamp = e.timestamp)} \cup {e}

\* docClient.delete by key (userId, timestamp)
deleteItem(L, userId, timestamp) ==
  {o \in L : ~(o.userId = userId /\ o.timestamp = timestamp)}

InitLedger ==
  /\ facts \in [FactIds -> {storedFact(s) : s \in InitShares}]
  /\ ledger = {}
  /\ pc = [p \in Procs |-> "idle"]
  /\ req = [p \in Procs |-> NoRequest]
  /\ oppItems = [p \in Procs |-> <<>>]
  /\ mctx = [p \in Procs |-> NoMetrics]
  /\ snap = [p \in Procs |-> NoSnap]
  /\ resp = [p \in Procs |-> 0]
  /\ log = [p \in Procs |-> <<>>]
  /\ pre = [p \in Procs |-> NoPre]
  /\ nreq = 0

\* no request has arrived yet at a freshly created fact
IdleLedger ==
  /\ InitLedger
  /\ \A f \in FactIds : facts[f].shares = 0

\* the handler sends its response and is free for the next request
respond(p, status) ==
  /\ pc' = [pc EXCEPT ![p] = "idle"]
  /\ resp' = [resp EXCEPT ![p] = status]
  /\ oppItems' = [oppItems EXCEPT ![p] = <<>>]
  /\ mctx' = [mctx EXCEPT ![p] = NoMetrics]
  /\ snap' = [snap EXCEPT ![p] = NoSnap]

\* a request arrives at handler p; req, resp, log and pre of a handler describe the
\* request it served last until the next request arrives at the server
arrive(p, r, first) ==
  /\ pc[p] = "idle"
  /\ nreq < MaxRequests
  /\ nreq' = nreq + 1
  /\ pc' = [pc EXCEPT ![p] = first]
  /\ req' = [q \in Procs |-> IF q = p THEN r ELSE IF pc[q] = "idle" THEN NoRequest ELSE req[q]]
  /\ resp' = [q \in Procs |-> IF pc[q] = "idle" THEN 0 ELSE resp[q]]
  /\ log' = [q \in Procs |-> IF pc[q] = "idle" THEN <<>> ELSE log[q]]
  /\ pre' = [q \in Procs |->
       IF q = p
         THEN [hadOpposite |-> queryItems(r.userId, r.factId, oppositeTypeOf(r.type)) # {},
               oppositeCount |-> IF r.factId \in FactIds
                                   THEN facts[r.factId][metricMap(oppositeTypeOf(r.type))]
                                   ELSE 0]
         ELSE IF pc[q] = "idle" THEN NoPre ELSE pre[q]]
  /\ UNCHANGED <<facts, ledger, oppItems, mctx, snap>>
  /\ UNCHANGED ledgerFrame

\* POST /: record an interaction
PostStart(p) ==
  \E u \in Users, f \in RequestFactIds, t \in Types, ts \in Timestamps :
    arrive(p, [op |-> "post", userId |-> u, factId |-> f, type |-> t, timestamp |-> ts],
           "post_getFact")

\* DELETE /:userId/:factId/:type: remove an interaction
DeleteStart(p) ==
  \E u \in Users, f \in RequestFactIds, t \in Types :
    arrive(p, [op |-> "delete", userId |-> u, factId |-> f, type |-> t, timestamp |-> 1],
           "del_query")

\* docClient.get(factParams) answers: 404 when the fact is missing
PostGetFactOk(p) ==
  /\ pc[p] = "post_getFact"
  /\ IF req[p].factId \notin FactIds
       THEN respond(p, 404)
       ELSE /\ pc' = [pc EXCEPT ![p] =
                 IF req[p].type \in {"like", "dislike"} THEN "opp_query" ELSE "post_put"]
            /\ UNCHANGED <<resp, oppItems, mctx, snap>>
  /\ UNCHANGED <<facts, ledger, req, log, pre, nreq>>
  /\ UNCHANGED ledgerFrame

\* docClient.get(factParams) throws: the error reaches the error handler
PostGetFactFail(p) ==
  /\ pc[p] = "post_getFact"
  /\ respond(p, 500)
  /\ UNCHANGED <<facts, ledger, req, log, pre, nreq>>
  /\ UNCHANGED ledgerFrame

\* removeOppositeInteraction: docClient.query answers
OppQueryOk(p) ==
  /\ pc[p] = "opp_query"
  /\ LET items == sortedTimestamps(
           {e.timestamp : e \in queryItems(req[p].userId, req[p].factId,
                                           oppositeTypeOf(req[p].type))})
     IN /\ oppItems' = [oppItems EXCEPT ![p] = items]
        /\ pc' = [pc EXCEPT ![p] = IF items = <<>> THEN "post_put" ELSE "opp_delete"]
  /\ UNCHANGED <<facts, ledger, req, mctx, snap, resp, log, pre, nreq>>
  /\ UNCHANGED ledgerFrame

\* removeOppositeInteraction: docClient.query throws; the catch logs and returns
OppQueryFail(p) ==
  /\ pc[p] = "opp_query"
  /\ log' = [log EXCEPT ![p] = Append(@, "opposite")]
  /\ pc' = [pc EXCEPT ![p] = "post_put"]
  /\ UNCHANGED <<facts, ledger, req, oppItems, mctx, snap, resp, pre, nreq>>
  /\ UNCHANGED ledgerFrame

\* removeOppositeInteraction: docClient.delete answers, updateFactMetrics(-1) starts
OppDeleteOk(p) ==
  /\ pc[p] = "opp_delete"
  /\ ledger' = deleteItem(ledger, req[p].userId, Head(oppItems[p]))
  /\ mctx' = [mctx EXCEPT ![p] =
       [type |-> oppositeTypeOf(req[p].type), delta |-> -1, ret |-> "opp_next"]]
  /\ pc' = [pc EXCEPT ![p] = "m_add"]
  /\ UNCHANGED <<facts, req, oppItems, snap, resp, log, pre, nreq>>
  /\ UNCHANGED ledgerFrame

\* removeOppositeInteraction: docClient.delete throws; the catch ends the loop
OppDeleteFail(p) ==
  /\ pc[p] = "opp_delete"
  /\ log' = [log EXCEPT ![p] = Append(@, "opposite")]
  /\ oppItems' = [oppItems EXCEPT ![p] = <<>>]
  /\ pc' = [pc EXCEPT ![p] = "post_put"]
  /\ UNCHANGED <<facts, ledger, req, mctx, snap, resp, pre, nreq>>
  /\ UNCHANGED ledgerFrame

\* docClient.put(params) answers, updateFactMetrics(+1) starts
PostPutOk(p) ==
  /\ pc[p] = "post_put"
  /\ ledger' = putItem(ledger, [userId |-> req[p].userId, timestamp |-> req[p].timestamp,
                                factId |-> req[p].factId, type |-> req[p].type])
  /\ mctx' = [mctx EXCEPT ![p] = [type |-> req[p].type, delta |-> 1, ret |-> "post_respond"]]
  /\ pc' = [pc EXCEPT ![p] = "m_add"]
  /\ UNCHANGED <<facts, req, oppItems, snap, resp, log, pre, nreq>>
  /\ UNCHANGED ledgerFrame

\* docClient.put(params) throws: the error reaches the error handler
PostPutFail(p) ==
  /\ pc[p] = "post_put"
  /\ respond(p, 500)
  /\ UNCHANGED <<facts, ledger, req, log, pre, nreq>>
  /\ UNCHANGED ledgerFrame

\* updateFactMetrics returns to its caller, which runs on to its next await
metricsReturn(p) ==
  CASE mctx[p].ret = "post_respond" -> respond(p, 201)
    [] mctx[p].ret = "del_respond" -> respond(p, 204)
    [] mctx[p].ret = "opp_next" ->
         /\ oppItems' = [oppItems EXCEPT ![p] = Tail(@)]
         /\ pc' = [pc EXCEPT ![p] =
              IF Tail(oppItems[p]) = <<>> THEN "post_put" ELSE "opp_delete"]
         /\ mctx' = [mctx EXCEPT ![p] = NoMetrics]
         /\ snap' = [snap EXCEPT ![p] = NoSnap]
         /\ UNCHANGED resp

\* the mutant of addCounter: SET <metricField> = :delta
addCounterSet(fact, field, delta) == [fact EXCEPT ![field] = delta]

\* UpdateExpression ADD <metricField> :delta
addCounter(fact, field, delta) == [fact EXCEPT ![field] = @ + delta]

\* updateFactMetrics: docClient.update(ADD) answers
MetricsAddOk(p) ==
  /\ pc[p] = "m_add"
  /\ facts' = [facts EXCEPT ![req[p].factId] =
       addCounter(@, metricMap(mctx[p].type), mctx[p].delta)]
  /\ pc' = [pc EXCEPT ![p] = "pop_get"]
  /\ UNCHANGED <<ledger, req, oppItems, mctx, snap, resp, log, pre, nreq>>
  /\ UNCHANGED ledgerFrame

\* updateFactMetrics: docClient.update(ADD) throws; the catch logs and returns
MetricsAddFail(p) ==
  /\ pc[p] = "m_add"
  /\ log' = [log EXCEPT ![p] = Append(@, "metrics")]
  /\ metricsReturn(p)
  /\ UNCHANGED <<facts, ledger, req, pre, nreq>>
  /\ UNCHANGED ledgerFrame

\* updatePopularityScore: docClient.get answers
PopularityGetOk(p) ==
  /\ pc[p] = "pop_get"
  /\ snap' = [snap EXCEPT ![p] = countersOf(facts[req[p].factId])]
  /\ pc' = [pc EXCEPT ![p] = "pop_set"]
  /\ UNCHANGED <<facts, ledger, req, oppItems, mctx, resp, log, pre, nreq>>
  /\ UNCHANGED ledgerFrame

\* updatePopularityScore: docClient.get throws; the catch logs and returns
PopularityGetFail(p) ==
  /\ pc[p] = "pop_get"
  /\ log' = [log EXCEPT ![p] = Append(@, "popularity")]
  /\ metricsReturn(p)
  /\ UNCHANGED <<facts, ledger, req, pre, nreq>>
  /\ UNCHANGED ledgerFrame

\* updatePopularityScore: docClient.update(SET popularity) answers
PopularitySetOk(p) ==
  /\ pc[p] = "pop_set"
  /\ facts' = [facts EXCEPT ![req[p].factId].popularity = popularityOf(snap[p])]
  /\ metricsReturn(p)
  /\ UNCHANGED <<ledger, req, log, pre, nreq>>
  /\ UNCHANGED ledgerFrame

\* updatePopularityScore: docClient.update(SET popularity) throws; the catch logs
PopularitySetFail(p) ==
  /\ pc[p] = "pop_set"
  /\ log' = [log EXCEPT ![p] = Append(@, "popularity")]
  /\ metricsReturn(p)
  /\ UNCHANGED <<facts, ledger, req, pre, nreq>>
  /\ UNCHANGED ledgerFrame

\* the mutant of deleteFound: an empty result is not rejected
deleteFoundAlways(items) == TRUE

\* DELETE: queryResult.Items.length === 0 throws AppError 404
deleteFound(items) == items # {}

\* the timestamp of the entry the DELETE handler picks: the latest one
latestInteraction(items) == CHOOSE t \in items : \A o \in items : o <= t

\* DELETE: docClient.query answers
DeleteQueryOk(p) ==
  /\ pc[p] = "del_query"
  /\ LET items == {e.timestamp : e \in queryItems(req[p].userId, req[p].factId, req[p].type)}
     IN IF deleteFound(items)
          THEN /\ pc' = [pc EXCEPT ![p] = "del_delete"]
               /\ oppItems' = [oppItems EXCEPT ![p] =
                    IF items = {} THEN <<>> ELSE <<latestInteraction(items)>>]
               /\ UNCHANGED <<resp, mctx, snap>>
          ELSE respond(p, 404)
  /\ UNCHANGED <<facts, ledger, req, log, pre, nreq>>
  /\ UNCHANGED ledgerFrame

\* DELETE: docClient.query throws: the error reaches the error handler
DeleteQueryFail(p) ==
  /\ pc[p] = "del_query"
  /\ respond(p, 500)
  /\ UNCHANGED <<facts, ledger, req, log, pre, nreq>>
  /\ UNCHANGED ledgerFrame

\* DELETE: docClient.delete answers, updateFactMetrics(-1) starts
DeleteDeleteOk(p) ==
  /\ pc[p] = "del_delete"
  /\ ledger' = IF oppItems[p] = <<>> THEN ledger
               ELSE deleteItem(ledger, req[p].userId, Head(oppItems[p]))
  /\ mctx' = [mctx EXCEPT ![p] = [type |-> req[p].type, delta |-> -1, ret |-> "del_respond"]]
  /\ pc' = [pc EXCEPT ![p] = "m_add"]
  /\ UNCHANGED <<facts, req, oppItems, snap, resp, log, pre, nreq>>
  /\ UNCHANGED ledgerFrame

\* DELETE: docClient.delete throws: the error reaches the error handler
DeleteDeleteFail(p) ==
  /\ pc[p] = "del_delete"
  /\ respond(p, 500)
  /\ UNCHANGED <<facts, ledger, req, log, pre, nreq>>
  /\ UNCHANGED ledgerFrame

\* one await of a request in flight
HandlerStep(p) ==
  \/ PostGetFactOk(p) \/ PostGetFactFail(p)
  \/ OppQueryOk(p) \/ OppQueryFail(p)
  \/ OppDeleteOk(p) \/ OppDeleteFail(p)
  \/ PostPutOk(p) \/ PostPutFail(p)
  \/ MetricsAddOk(p) \/ MetricsAddFail(p)
  \/ PopularityGetOk(p) \/ PopularityGetFail(p)
  \/ PopularitySetOk(p) \/ PopularitySetFail(p)
  \/ DeleteQueryOk(p) \/ DeleteQueryFail(p)
  \/ DeleteDeleteOk(p) \/ DeleteDeleteFail(p)

\* one await of a record request in flight
RecordStep(p) ==
  \/ PostGetFactOk(p) \/ PostGetFactFail(p)
  \/ OppQueryOk(p) \/ OppQueryFail(p)
  \/ OppDeleteOk(p) \/ OppDeleteFail(p)
  \/ PostPutOk(p) \/ PostPutFail(p)
  \/ MetricsAddOk(p) \/ MetricsAddFail(p)
  \/ PopularityGetOk(p) \/ PopularityGetFail(p)
  \/ PopularitySetOk(p) \/ PopularitySetFail(p)

AllIdle == \A p \in Procs : pc[p] = "idle"

\* handler p serves the record requests of one user; the users are distinct
userOf(p) == IF p = 1 THEN "u1" ELSE "u2"

\* POST /: a user records an interaction with the stored fact; each handler
\* serves one request
RecordStart(p) ==
  \E t \in Types, ts \in Timestamps :
    nreq < Cardinality(Procs) /\ arrive(p, [op |-> "post", userId |-> userOf(p), factId |-> "f1", type |-> t,
               timestamp |-> ts],
           "post_getFact")

\* record requests of distinct users on one item, served concurrently
NextRecords ==
  \E p \in Procs :
    \/ RecordStart(p)
    \/ RecordStep(p)

\* requests served one after the other: a request arrives when none is in flight
NextLedgerSeq ==
  \E p \in {1} :
    \/ AllIdle /\ PostStart(p)
    \/ AllIdle /\ DeleteStart(p)
    \/ HandlerStep(p)

\* requests served concurrently
NextLedger ==
  \E p \in Procs :
    \/ PostStart(p)
    \/ DeleteStart(p)
    \/ HandlerStep(p)


(***************************************************************************)
(* Claims about the interaction ledger and the metrics updater             *)
(***************************************************************************)

\* the documented formula, in half points:
\* clamp(0, 100, 3*likes + 5*shares + 1*reads + 0.5*views - 2*dislikes)
ClaimedPopularity(fact) ==
  LET raw == 6 * fact.likes + 10 * fact.shares + 2 * fact.reads + fact.views
               - 4 * fact.dislikes
  IN IF raw < 0 THEN 0 ELSE IF raw > 200 THEN 200 ELSE raw

PopularityMatches(f) == facts[f].popularity = ClaimedPopularity(facts[f])

\* C1: requests served one after the other. When a metrics update has run to
\* completion (the ADD answered, then the recompute's get and SET answered: the
\* step leaving the SET logs nothing), the stored popularity of the item is the
\* documented clamp formula of its counters; so it is after every record and
\* remove request that answered 201 or 204 and logged no error.
C1_PopularityAfterUpdate ==
  [][\A p \in Procs :
       /\ (pc[p] = "pop_set" /\ pc'[p] # "pop_set" /\ log'[p] = log[p])
            => PopularityMatches(req[p].factId)'
       /\ (pc[p] # "idle" /\ pc'[p] = "idle" /\ resp'[p] \in {201, 204} /\ log'[p] = <<>>)
            => PopularityMatches(req[p].factId)'
    ]_vars

\* C1 witness: a view was recorded without error on a fresh fact; popularity is 0.5
C1_Witness ==
  /\ AllIdle
  /\ \E p \in Procs :
       /\ resp[p] = 201 /\ log[p] = <<>> /\ req[p].type = "view"
       /\ facts[req[p].factId].views = 1
       /\ facts[req[p].factId].popularity = 1

\* C2: requests served concurrently. Once every request has completed (none in
\* flight) and none logged an error, the stored popularity of every item a
\* completed metrics update touched is the clamp formula of its final counters.
C2_EventuallyConsistent ==
  (AllIdle /\ \A p \in Procs : log[p] = <<>>)
    => \A p \in Procs : resp[p] \in {201, 204} => PopularityMatches(req[p].factId)

\* C3: requests served one after the other, store calls may fail. Whenever no
\* request is in flight, no (user, item) pair has both a like and a dislike entry.
C3_LikeDislikeExclusive ==
  AllIdle =>
    \A u \in Users, f \in FactIds :
      ~(queryItems(u, f, "like") # {} /\ queryItems(u, f, "dislike") # {})

\* C4: requests served one after the other. A like (dislike) recorded with 201
\* for a pair that held a dislike (like) when the request arrived leaves no
\* opposite entry for the pair, the opposite counter exactly 1 lower than it
\* was, and an entry of the recorded type present.
C4_OppositeReplaced ==
  [][\A p \in Procs :
       (/\ pc[p] # "idle" /\ pc'[p] = "idle" /\ resp'[p] = 201
        /\ req[p].type \in {"like", "dislike"}
        /\ pre[p].hadOpposite)
         => /\ queryItems(req[p].userId, req[p].factId, oppositeTypeOf(req[p].type))' = {}
            /\ facts'[req[p].factId][metricMap(oppositeTypeOf(req[p].type))]
                 = pre[p].oppositeCount - 1
            /\ queryItems(req[p].userId, req[p].factId, req[p].type)' # {}
    ]_vars

\* C5: a remove request for a (user, item, type) with no matching ledger entry
\* ends at its first await, leaves the ledger and every fact (counters and
\* popularity) as they were, and answers 404; the only other answer is the
\* store's own error (500) when the ledger query itself throws.
C5_RemoveMissingNotFound ==
  [][\A p \in Procs :
       (/\ pc[p] = "del_query" /\ pc'[p] # pc[p]
        /\ queryItems(req[p].userId, req[p].factId, req[p].type) = {})
         => /\ pc'[p] = "idle"
            /\ resp'[p] \in {404, 500}
            /\ ledger' = ledger
            /\ facts' = facts
    ]_vars

\* C5 witness: a remove of a like answered 404 while the pair holds a dislike
C5_Witness ==
  \E p \in Procs :
    /\ pc[p] = "idle" /\ resp[p] = 404 /\ req[p].op = "delete" /\ req[p].type = "like"
    /\ req[p].factId \in FactIds
    /\ queryItems(req[p].userId, req[p].factId, "dislike") # {}
    /\ facts[req[p].factId].dislikes = 1

\* C20: every engagement counter of every fact is at least 0.
C20_CountersNonNegative ==
  \A f \in FactIds :
    /\ facts[f].views >= 0 /\ facts[f].likes >= 0 /\ facts[f].dislikes >= 0
    /\ facts[f].shares >= 0 /\ facts[f].reads >= 0

\* C21: a record or remove request that answers success (201 or 204) had no
\* store operation fail on the way: no failure of the opposite-entry removal,
\* of a counter update or of a popularity recompute was logged and passed over.
C21_SuccessImpliesEveryStepApplied ==
  [][\A p \in Procs :
       (pc[p] # "idle" /\ pc'[p] = "idle" /\ resp'[p] \in {201, 204})
         => log'[p] = <<>>
    ]_vars

\* the entries matching the remove request of handler p
removeMatches(p) == queryItems(req[p].userId, req[p].factId, req[p].type)

\* C23: requests served one after the other. A remove request that found a
\* matching entry and answers 204 has deleted exactly the matching entry with
\* the greatest timestamp (the step of its delete removes that entry and no
\* other) and has lowered the item's counter of the type by exactly 1 (the
\* step that leaves its counter update lowers the counter by 1); its other
\* steps leave the ledger and the counter as they are.
C23_RemoveDeletesLatestAndDecrements ==
  [][\A p \in Procs :
       LET f == req[p].factId
           field == metricMap(req[p].type)
       IN (req[p].op = "delete" /\ pc[p] # "idle" /\ pc'[p] # pc[p]) =>
            /\ pc[p] = "del_delete" /\ pc'[p] = "m_add" =>
                 \E e \in removeMatches(p) :
                   /\ \A o \in removeMatches(p) : o.timestamp <= e.timestamp
                   /\ ledger' = ledger \ {e}
            /\ pc[p] # "del_delete" => ledger' = ledger
            /\ pc[p] = "m_add" => facts'[f][field] = facts[f][field] - 1
            /\ (pc[p] # "m_add" /\ f \in FactIds) => facts'[f][field] = facts[f][field]
    ]_vars

\* the two handlers served overlapping record requests of one type on one item
\* by distinct users, the only requests so far, both answered 201, and the
\* store accepted the counter update of each
twoConcurrentRecords(f, type) ==
  /\ AllIdle /\ nreq = Cardinality(Procs)
  /\ req[1].userId # req[2].userId
  /\ \A p \in Procs :
       /\ req[p].op = "post" /\ req[p].factId = f /\ req[p].type = type
       /\ resp[p] = 201
       /\ \A i \in 1..Len(log[p]) : log[p][i] # "metrics"

\* C24: requests served concurrently. After two overlapping record requests of
\* the same type on the same item by distinct users have completed, whatever
\* the interleaving of their store calls, the item's counter of the type is
\* exactly 2 above its value before them (0, or the initial share count).
C24_ConcurrentIncrementsAllCounted ==
  \A f \in FactIds, type \in Types :
    twoConcurrentRecords(f, type) =>
      \E initial \in (IF type = "share" THEN InitShares ELSE {0}) :
        facts[f][metricMap(type)] = initial + 2

\* C24 witness: two overlapping likes of f1 by u1 and u2 completed; likes is 2
C24_Witness ==
  /\ twoConcurrentRecords("f1", "like")
  /\ facts["f1"].likes = 2

\* the entries of the (user, item) pair of handler p's request with the opposite type
oppositeEntries(p) == queryItems(req[p].userId, req[p].factId, oppositeTypeOf(req[p].type))

\* C36: while a record request is served, the put adds one entry and leaves
\* every entry that was in the ledger in it, also when the request's timestamp
\* is that of an entry of the same user; every other step of the request adds
\* nothing and removes only entries of the opposite type of its (user, item) pair.
C36_RecordAddsOneChangesNone ==
  [][\A p \in Procs :
       (req[p].op = "post" /\ pc[p] # "idle" /\ req'[p] = req[p]) =>
         IF pc[p] = "post_put" /\ pc'[p] = "m_add"
           THEN ledger \subseteq ledger' /\ Cardinality(ledger' \ ledger) = 1
           ELSE ledger' \subseteq ledger /\ (ledger \ ledger') \subseteq oppositeEntries(p)
    ]_vars

\* C37: when no request is in flight, every counter of every item is the number
\* of ledger entries of its type for the item (above the shares the item
\* started with).
C37_CountersMatchLedgerWhenQuiescent ==
  AllIdle =>
    \A f \in FactIds, type \in Types :
      \E initial \in (IF type = "share" THEN InitShares ELSE {0}) :
        facts[f][metricMap(type)]
          = initial + Cardinality({e \in ledger : e.factId = f /\ e.type = type})

\* C38: a record request that is answered with an error leaves the opposite
\* entry of its (user, item) pair in the ledger when there was one, and the
\* opposite counter at the value it had when the request arrived.
C38_FailedRecordLeavesStoreUnchanged ==
  [][\A p \in Procs :
       (req[p].op = "post" /\ pc[p] # "idle" /\ pc'[p] = "idle" /\ resp'[p] # 201
        /\ req[p].factId \in FactIds /\ req[p].type \in {"like", "dislike"}) =>
         /\ pre[p].hadOpposite => oppositeEntries(p) # {}
         /\ facts'[req[p].factId][metricMap(oppositeTypeOf(req[p].type))]
              = pre[p].oppositeCount
    ]_vars

\* C39: the ledger holds at most one like and at most one dislike of a
\* (user, item) pair; the put of a like (dislike) for a pair that has one
\* leaves the ledger as it is.
C39_AtMostOneLikePerPair ==
  /\ [](\A u \in Users, f \in RequestFactIds, type \in {"like", "dislike"} :
          Cardinality(queryItems(u, f, type)) <= 1)
  /\ [][\A p \in Procs :
          (pc[p] = "post_put" /\ pc'[p] = "m_add" /\ req[p].type \in {"like", "dislike"}
           /\ queryItems(req[p].userId, req[p].factId, req[p].type) # {})
            => ledger' = ledger]_vars

(***************************************************************************)
(* GET /stats/:factId: interaction statistics of an item (interactions.js). *)
(* The engagement score is kept in half points.                            *)
(***************************************************************************)

NoStats == [like |-> 0, dislike |-> 0, share |-> 0, read |-> 0, view |-> 0, total |-> 0,
            engagementScore |-> 0]

IdleStats ==
  /\ stPc = "idle"
  /\ stFactId = "f1"
  /\ stStats = NoStats
  /\ stStatus = 0

RECURSIVE reduceTypes(_, _)
\* interactions.reduce: acc[interaction.type] = (acc[interaction.type] || 0) + 1
reduceTypes(interactions, acc) ==
  IF interactions = {} THEN acc
  ELSE LET interaction == CHOOSE e \in interactions : TRUE
       IN reduceTypes(interactions \ {interaction},
                      [acc EXCEPT ![interaction.type] = @ + 1])

\* the mutant of engagementFloor: the score is sent as computed
engagementFloorNone(score) == score

\* Math.max(0, engagementScore)
engagementFloor(score) == Max2(0, score)

\* 2 * (like*3 + share*5 + read*1 + view*0.5 - dislike*2)
engagementScore(stats) ==
  (stats.like * 6) + (stats.share * 10) + (stats.read * 2) + (stats.view * 1)
    - (stats.dislike * 4)

\* the stats object of the response; a type without entries counts 0
statsOf(interactions) ==
  LET stats == reduceTypes(interactions, [t \in Types |-> 0])
  IN [like |-> stats.like, dislike |-> stats.dislike, share |-> stats.share,
      read |-> stats.read, view |-> stats.view,
      total |-> Cardinality(interactions),
      engagementScore |-> engagementFloor(engagementScore(stats))]

\* a statistics request arrives
StatsStart ==
  /\ stPc = "idle"
  /\ \E f \in RequestFactIds : stFactId' = f
  /\ stPc' = "query"
  /\ stStats' = NoStats
  /\ stStatus' = 0
  /\ UNCHANGED stFrame

\* docClient.query on factId-timestamp-index answers with the item's entries
StatsQueryOk ==
  /\ stPc = "query"
  /\ stStats' = statsOf({e \in ledger : e.factId = stFactId})
  /\ stStatus' = 200
  /\ stPc' = "idle"
  /\ UNCHANGED stFactId
  /\ UNCHANGED stFrame

\* docClient.query throws: the error reaches the error handler
StatsQueryFail ==
  /\ stPc = "query"
  /\ stStatus' = 500
  /\ stPc' = "idle"
  /\ UNCHANGED <<stFactId, stStats>>
  /\ UNCHANGED stFrame

NextStatsRoute == StatsStart \/ StatsQueryOk \/ StatsQueryFail

\* record requests of two users and statistics requests, served one after the other
NextStats ==
  \/ stPc = "idle" /\ \E p \in Procs : (AllIdle /\ RecordStart(p)) \/ RecordStep(p)
  \/ AllIdle /\ NextStatsRoute

\* the number of ledger entries of item f of the type
entriesOfType(f, type) == Cardinality({e \in ledger : e.factId = f /\ e.type = type})

\* C25: the stats of a 200 response count, for each type, the item's ledger
\* entries of the type at the time of the query; total is the number of the
\* item's entries; the engagement score is
\* max(0, 3*like + 5*share + 1*read + 0.5*view - 2*dislike) (here in half
\* points); when the item's only entry is one share, the stats are share 1,
\* total 1, engagementScore 5.
C25_StatsAggregateLedger ==
  [][(stPc = "query" /\ stStatus' = 200) =>
       LET raw == 6 * stStats'.like + 10 * stStats'.share + 2 * stStats'.read + stStats'.view
                    - 4 * stStats'.dislike
           entries == {e \in ledger : e.factId = stFactId}
       IN /\ \A type \in Types : stStats'[type] = entriesOfType(stFactId, type)
          /\ stStats'.total = Cardinality(entries)
          /\ stStats'.engagementScore = (IF raw < 0 THEN 0 ELSE raw)
          /\ (Cardinality(entries) = 1 /\ \A e \in entries : e.type = "share")
               => stStats' = [NoStats EXCEPT !.share = 1, !.total = 1, !.engagementScore = 10]
    ]_vars

\* C25 witness: a share of f1 was recorded, then its stats were served
C25_Witness ==
  /\ stPc = "idle" /\ stStatus = 200 /\ stFactId = "f1" /\ nreq = 1
  /\ \E p \in Procs : req[p].op = "post" /\ req[p].type = "share" /\ resp[p] = 201
  /\ stStats = [NoStats EXCEPT !.share = 1, !.total = 1, !.engagementScore = 10]

(***************************************************************************)
(* Errors and the error middleware: errorHandler.js (index.js 122-238)     *)
(***************************************************************************)

\* An error object: code and name as the store client sets them, statusCode
\* (0: the property is absent) and isOperational (set by AppError only).
NoError == [code |-> "", name |-> "", statusCode |-> 0, isOperational |-> FALSE]

\* new AppError(message, statusCode)
AppError(statusCode) ==
  [code |-> "", name |-> "Error", statusCode |-> statusCode, isOperational |-> TRUE]

\* HTTP status a store client error may carry in its statusCode property
StoreStatusCodes == {0, 400, 500, 503}

\* the error of a failed store call with the given code
storeErrors(code) ==
  {[code |-> code, name |-> code, statusCode |-> sc, isOperational |-> FALSE] :
     sc \in StoreStatusCodes}

Cancelled == "TransactionCanceledException"
Throttled == "ProvisionedThroughputExceededException"
\* a transient network or service fault
Transient == "NetworkingError"

\* the first three characters of an error code
codePrefix(code) ==
  CASE code = "TransactionCanceledException" -> "Tra"
    [] code = "ProvisionedThroughputExceededException" -> "Pro"
    [] code = "NetworkingError" -> "Net"
    [] code = "ConditionalCheckFailedException" -> "Con"
    [] code = "ResourceNotFoundException" -> "Res"
    [] code = "ValidationException" -> "Val"
    [] OTHER -> ""

\* handleAWSError(error)
handleAWSError(error) ==
  CASE error.code = "ResourceNotFoundException" -> AppError(404)
    [] error.code = "ValidationException" -> AppError(400)
    [] error.code = "ConditionalCheckFailedException" -> AppError(409)
    [] error.code = "ProvisionedThroughputExceededException" -> AppError(503)
    [] OTHER -> AppError(500)

\* error.code && error.code.startsWith('AWS')
isAWSCode(error) == error.code # "" /\ codePrefix(error.code) = "AWS"

NodeEnvs == {"development", "production"}

\* the status of the response errorHandler sends for err
errorHandlerStatus(env, err) ==
  LET statusCode == IF err.statusCode # 0 THEN err.statusCode ELSE 500
  IN IF env = "development"
       THEN statusCode
       ELSE LET e1 == IF isAWSCode(err) THEN handleAWSError(err)
                      ELSE [err EXCEPT !.statusCode = statusCode]
                e2 == IF e1.name = "ValidationError" THEN AppError(400) ELSE e1
                e3 == IF e2.name \in {"JsonWebTokenError", "TokenExpiredError"}
                        THEN AppError(401) ELSE e2
            IN IF e3.isOperational THEN e3.statusCode ELSE 500

(***************************************************************************)
(* Batch access layer: aws.js                                              *)
(***************************************************************************)

\* maxRetries = 3, the default of batchGetItems, batchWriteItems, batchDeleteItems
maxRetries == 3

RECURSIVE pow2(_)
pow2(n) == IF n <= 0 THEN 1 ELSE 2 * pow2(n - 1)

\* Math.min(1000 * Math.pow(2, attempt), 5000)
backoffDelay(attempt) == Min2(1000 * pow2(attempt), 5000)

\* the elements of set S, ascending, as a sequence
RECURSIVE ascending(_)
ascending(S) ==
  IF S = {} THEN <<>>
  ELSE LET m == CHOOSE k \in S : \A o \in S : k <= o
       IN <<m>> \o ascending(S \ {m})

Range(q) == {q[k] : k \in 1..Len(q)}

\* the mutant of slice: the end index is one too far
sliceOneMore(q, i, size) == SubSeq(q, i + 1, Min2(i + size + 1, Len(q)))

\* array.slice(i, i + size) with i counted from 0
slice(q, i, size) == SubSeq(q, i + 1, Min2(i + size, Len(q)))

(***************************************************************************)
(* batchGetItems.  batchSizeGet stands for the code's batchSize = 100: the *)
(* chunking is the same for every chunk size, and a small one lets the     *)
(* store's answers range over every subset of a request.                   *)
(***************************************************************************)
batchSizeGet == 2
\* the number of keys asked for is 0..MaxKeys
MaxKeys == 5

AllKeys == 1..MaxKeys

IdleBatchGet ==
  /\ bgPc = "idle"
  /\ bgKeys = <<>>
  /\ bgExisting = {}
  /\ bgI = 0
  /\ bgRemaining = <<>>
  /\ bgAttempt = 0
  /\ bgResults = <<>>
  /\ bgResp = "none"
  /\ bgDelay = 0
  /\ bgDropped = {}
  /\ bgError = NoError

\* a call batchGetItems(tableName, keys) with distinct keys is about to run
InitBatchGet ==
  /\ bgPc = "start"
  /\ \E n \in 0..MaxKeys : bgKeys = [k \in 1..n |-> k]
  /\ bgExisting \in SUBSET AllKeys
  /\ bgI = 0
  /\ bgRemaining = <<>>
  /\ bgAttempt = 0
  /\ bgResults = <<>>
  /\ bgResp = "none"
  /\ bgDelay = 0
  /\ bgDropped = {}
  /\ bgError = NoError

\* if (!keys || keys.length === 0) return []; else the first chunk is entered
BatchGetStart ==
  /\ bgPc = "start"
  /\ IF Len(bgKeys) = 0
       THEN /\ bgPc' = "done"
            /\ UNCHANGED bgRemaining
       ELSE /\ bgPc' = "request"
            /\ bgRemaining' = slice(bgKeys, 0, batchSizeGet)
  /\ UNCHANGED <<bgKeys, bgExisting, bgI, bgAttempt, bgResults, bgResp, bgDelay, bgDropped,
               bgError>>
  /\ UNCHANGED bgFrame

\* the while loop of the current chunk has ended: the for loop goes to the next
\* chunk, or the function returns allResults
bgNextChunk(left) ==
  /\ bgDropped' = bgDropped \cup Range(left)
  /\ IF bgI + batchSizeGet < Len(bgKeys)
       THEN /\ bgI' = bgI + batchSizeGet
            /\ bgRemaining' = slice(bgKeys, bgI + batchSizeGet, batchSizeGet)
            /\ bgAttempt' = 0
            /\ bgPc' = "request"
       ELSE /\ bgI' = bgI
            /\ bgRemaining' = left
            /\ bgAttempt' = bgAttempt + 1
            /\ bgPc' = "done"

\* the mutant of retryKeys: the whole request is sent again
retryKeysAll(requested, unprocessed) == requested

\* remainingKeys = result.UnprocessedKeys[tableName].Keys
retryKeys(requested, unprocessed) == unprocessed

\* the mutant of loopAgain: the loop goes on while keys remain
loopAgainWhileLeft(left, attempt) == Len(left) > 0

\* while (remainingKeys.length > 0 && attempt < maxRetries)
loopAgain(left, attempt) == Len(left) > 0 /\ attempt < maxRetries

\* Responses[tableName]: the items of the processed keys that exist
responseItems(processed) == ascending(processed \cap bgExisting)

\* docClient.batchGet answers and every key of the request was processed
BatchGetComplete ==
  /\ bgPc = "request"
  /\ bgResults' = bgResults \o responseItems(Range(bgRemaining))
  /\ bgResp' = "complete"
  /\ bgNextChunk(<<>>)
  /\ UNCHANGED <<bgKeys, bgExisting, bgDelay, bgError>>
  /\ UNCHANGED bgFrame

\* docClient.batchGet answers with UnprocessedKeys: the store chose which
BatchGetPartial ==
  /\ bgPc = "request"
  /\ \E U \in SUBSET Range(bgRemaining) :
       /\ U # {}
       /\ bgResults' = bgResults \o responseItems(Range(bgRemaining) \ U)
       /\ bgResp' = "partial"
       /\ bgDelay' = backoffDelay(bgAttempt)
       /\ LET left == retryKeys(bgRemaining, ascending(U))
          IN IF loopAgain(left, bgAttempt + 1)
               THEN /\ bgRemaining' = left
                    /\ bgAttempt' = bgAttempt + 1
                    /\ UNCHANGED <<bgPc, bgI, bgDropped>>
               ELSE bgNextChunk(left)
  /\ UNCHANGED <<bgKeys, bgExisting, bgError>>
  /\ UNCHANGED bgFrame

\* the mutant of throwsAfterError: the error of the last attempt is swallowed
throwsAfterErrorNever(attempt) == FALSE

\* catch: attempt++; if (attempt >= maxRetries) throw error
throwsAfterError(attempt) == attempt >= maxRetries

\* the codes of the retryable failures of a store request
RetryableCodes == {Throttled, Transient}

\* docClient.batchGet throws
BatchGetError ==
  /\ bgPc = "request"
  /\ bgResp' = "error"
  /\ \E code \in RetryableCodes : \E error \in storeErrors(code) :
       IF throwsAfterError(bgAttempt + 1)
         THEN /\ bgPc' = "thrown"
              /\ bgError' = error
              /\ bgAttempt' = bgAttempt + 1
              /\ UNCHANGED <<bgI, bgRemaining, bgDelay, bgDropped>>
         ELSE /\ bgDelay' = backoffDelay(bgAttempt + 1)
              /\ UNCHANGED bgError
              /\ IF loopAgain(bgRemaining, bgAttempt + 1)
                   THEN /\ bgAttempt' = bgAttempt + 1
                        /\ UNCHANGED <<bgPc, bgI, bgRemaining, bgDropped>>
                   ELSE bgNextChunk(bgRemaining)
  /\ UNCHANGED <<bgKeys, bgExisting, bgResults>>
  /\ UNCHANGED bgFrame

NextBatchGet ==
  \/ BatchGetStart
  \/ BatchGetComplete
  \/ BatchGetPartial
  \/ BatchGetError


(***************************************************************************)
(* Claims about batchGetItems                                              *)
(***************************************************************************)

BatchGetFinished == bgPc \in {"done", "thrown"}
AllKeysExist == Range(bgKeys) \subseteq bgExisting
NoDuplicates(q) == \A a, b \in 1..Len(q) : q[a] = q[b] => a = b

\* C6 as claimed: a batch-get of N > batchSize distinct existing keys returns
\* exactly N items, one per key, however many attempts reported unprocessed
\* keys or raised.
C6_BatchGetReturnsAll ==
  (BatchGetFinished /\ Len(bgKeys) > batchSizeGet /\ AllKeysExist)
    => /\ bgPc = "done"
       /\ Len(bgResults) = Len(bgKeys)
       /\ Range(bgResults) = Range(bgKeys)

\* C6 as amended: when batch-get returns and no chunk ended its maxRetries
\* attempts with keys still unprocessed, it returns exactly one item per
\* requested key that exists (N items when all N exist), in one piece per key.
C6_BatchGetReturnsAllWithinRetries ==
  (bgPc = "done" /\ bgDropped = {})
    => /\ Range(bgResults) = Range(bgKeys) \cap bgExisting
       /\ NoDuplicates(bgResults)
       /\ (AllKeysExist => Len(bgResults) = Len(bgKeys))

\* C6 witness: more keys than one chunk, all existing, the last chunk needed
\* every attempt, and all N items were returned
C6_Witness ==
  /\ bgPc = "done" /\ bgDropped = {}
  /\ Len(bgKeys) > batchSizeGet /\ AllKeysExist
  /\ bgAttempt = maxRetries
  /\ Len(bgResults) = Len(bgKeys)

\* the request that uses up the last attempt of a chunk is being answered
BatchGetLastAttempt == bgPc = "request" /\ bgAttempt = maxRetries - 1

IsPrefix(a, b) == Len(a) <= Len(b) /\ SubSeq(b, 1, Len(a)) = a

\* C8 as claimed: when the last attempt of a chunk leaves keys unprocessed or
\* raises, batch-get does not raise: it keeps every item retrieved so far.
C8_ExhaustionSurfacesItems ==
  [][(BatchGetLastAttempt /\ bgResp' \in {"partial", "error"})
       => (bgPc' # "thrown" /\ IsPrefix(bgResults, bgResults'))]_vars

\* C8 as amended: when the last attempt of a chunk answers with unprocessed
\* keys, batch-get does not raise, keeps every item retrieved so far, gives the
\* unprocessed keys up and goes on to the next chunk (returning after the last
\* one); when the last attempt raises, batch-get raises.
C8_ExhaustionByKind ==
  [][/\ (BatchGetLastAttempt /\ bgResp' = "partial")
          => /\ bgPc' \in {"request", "done"}
             /\ IsPrefix(bgResults, bgResults')
             /\ bgDropped' # bgDropped
             /\ (bgPc' = "request" => bgI' = bgI + batchSizeGet /\ bgAttempt' = 0)
             /\ (bgPc' = "done" => bgI + batchSizeGet >= Len(bgKeys))
     /\ (BatchGetLastAttempt /\ bgResp' = "error") => bgPc' = "thrown"
     /\ (bgPc' = "thrown" /\ bgPc # "thrown") => (BatchGetLastAttempt /\ bgResp' = "error")
    ]_vars

\* C8 witness: a later chunk gave keys up after items of an earlier chunk and of
\* its own earlier attempts were retrieved; batch-get returned them
C8_Witness ==
  /\ bgPc = "done" /\ bgResp = "partial" /\ bgDropped # {}
  /\ bgI > 0
  /\ \E k \in Range(bgResults) : k <= batchSizeGet
  /\ \E k \in Range(bgResults) : k > bgI

\* C12: when batchGetItems gives up because its requests kept failing with a
\* throttling or transient fault, the error it throws is answered by the error
\* middleware as Unavailable (503), whatever NODE_ENV is.
C12_ExhaustedRetriesAreUnavailable ==
  bgPc = "thrown" => \A env \in NodeEnvs : errorHandlerStatus(env, bgError) = 503

(***************************************************************************)
(* batchWriteItems, batchDeleteItems.  batchSizeWrite stands for the       *)
(* code's batchSize = 25.                                                  *)
(***************************************************************************)
batchSizeWrite == 2
\* the number of items to write is 0..MaxItems
MaxItems == 4

AllItems == 1..MaxItems

IdleBatchWrite ==
  /\ bwPc = "idle"
  /\ bwItems = <<>>
  /\ bwOp = "put"
  /\ bwTable = [k \in AllItems |-> "absent"]
  /\ bwB = 0
  /\ bwRemaining = <<>>
  /\ bwAttempt = 0
  /\ bwResp = "none"
  /\ bwDelay = 0

\* a call batchWriteItems(tableName, items, operation) or batchDeleteItems(tableName,
\* keys) with distinct items is about to run
InitBatchWrite ==
  /\ bwPc = "start"
  /\ \E n \in 0..MaxItems : bwItems = [k \in 1..n |-> k]
  /\ bwOp \in {"put", "delete"}
  /\ bwTable \in [AllItems -> {"absent", "old"}]
  /\ bwB = 0
  /\ bwRemaining = <<>>
  /\ bwAttempt = 0
  /\ bwResp = "none"
  /\ bwDelay = 0

\* batches[b], b counted from 0
batchOf(items, b) == slice(items, b * batchSizeWrite, batchSizeWrite)

\* batches.length
batchCount(items) == (Len(items) + batchSizeWrite - 1) \div batchSizeWrite

\* if (!items || items.length === 0) return; else the first batch is entered
BatchWriteStart ==
  /\ bwPc = "start"
  /\ IF Len(bwItems) = 0
       THEN /\ bwPc' = "done"
            /\ UNCHANGED bwRemaining
       ELSE /\ bwPc' = "request"
            /\ bwRemaining' = batchOf(bwItems, 0)
  /\ UNCHANGED <<bwItems, bwOp, bwTable, bwB, bwAttempt, bwResp, bwDelay>>
  /\ UNCHANGED bwFrame

\* the while loop of the current batch has ended: the for loop goes to the next
\* batch, or the function returns
bwNextBatch(left) ==
  IF bwB + 1 < batchCount(bwItems)
    THEN /\ bwB' = bwB + 1
         /\ bwRemaining' = batchOf(bwItems, bwB + 1)
         /\ bwAttempt' = 0
         /\ bwPc' = "request"
    ELSE /\ bwB' = bwB
         /\ bwRemaining' = left
         /\ bwAttempt' = bwAttempt + 1
         /\ bwPc' = "done"

\* the store applies PutRequest / DeleteRequest for the processed items
applyWrites(table, op, processed) ==
  [k \in AllItems |->
     IF k \in processed THEN (IF op = "delete" THEN "absent" ELSE "new") ELSE table[k]]

\* docClient.batchWrite answers and every item of the request was processed
BatchWriteComplete ==
  /\ bwPc = "request"
  /\ bwTable' = applyWrites(bwTable, bwOp, Range(bwRemaining))
  /\ bwResp' = "complete"
  /\ bwNextBatch(<<>>)
  /\ UNCHANGED <<bwItems, bwOp, bwDelay>>
  /\ UNCHANGED bwFrame

\* docClient.batchWrite answers with UnprocessedItems: the store chose which
BatchWritePartial ==
  /\ bwPc = "request"
  /\ \E U \in SUBSET Range(bwRemaining) :
       /\ U # {}
       /\ bwTable' = applyWrites(bwTable, bwOp, Range(bwRemaining) \ U)
       /\ bwResp' = "partial"
       /\ bwDelay' = backoffDelay(bwAttempt)
       /\ IF loopAgain(ascending(U), bwAttempt + 1)
            THEN /\ bwRemaining' = ascending(U)
                 /\ bwAttempt' = bwAttempt + 1
                 /\ UNCHANGED <<bwPc, bwB>>
            ELSE bwNextBatch(ascending(U))
  /\ UNCHANGED <<bwItems, bwOp>>
  /\ UNCHANGED bwFrame

\* docClient.batchWrite throws
BatchWriteError ==
  /\ bwPc = "request"
  /\ bwResp' = "error"
  /\ IF throwsAfterError(bwAttempt + 1)
       THEN /\ bwPc' = "thrown"
            /\ bwAttempt' = bwAttempt + 1
            /\ UNCHANGED <<bwB, bwRemaining, bwDelay>>
       ELSE /\ bwDelay' = backoffDelay(bwAttempt + 1)
            /\ IF loopAgain(bwRemaining, bwAttempt + 1)
                 THEN /\ bwAttempt' = bwAttempt + 1
                      /\ UNCHANGED <<bwPc, bwB, bwRemaining>>
                 ELSE bwNextBatch(bwRemaining)
  /\ UNCHANGED <<bwItems, bwOp, bwTable>>
  /\ UNCHANGED bwFrame

NextBatchWrite ==
  \/ BatchWriteStart
  \/ BatchWriteComplete
  \/ BatchWritePartial
  \/ BatchWriteError

(***************************************************************************)
(* Claims about batchWriteItems                                            *)
(***************************************************************************)

\* every input item was applied: put items are in the table, deleted ones are not
AllWritesApplied ==
  \A k \in Range(bwItems) : bwTable[k] = (IF bwOp = "delete" THEN "absent" ELSE "new")

\* C7: batch-write raises when a chunk still has unprocessed items after
\* maxRetries attempts, so when it returns normally every input item was applied.
C7_BatchWriteReturnImpliesApplied == bwPc = "done" => AllWritesApplied


(***************************************************************************)
(* paginatedQuery                                                          *)
(***************************************************************************)
\* pageSize is 1..MaxPageSize, maxResults 1..MaxMaxResults, the index holds 0..MaxData items
MaxPageSize == 3
MaxMaxResults == 4
MaxData == 4

IdlePaginated ==
  /\ pqPc = "idle"
  /\ pqPageSize = 1
  /\ pqMaxResults = 1
  /\ pqData = 0
  /\ pqMatch = {}
  /\ pqResults = <<>>
  /\ pqLEK = 0
  /\ pqScanned = 0
  /\ pqPage = <<>>

\* a call paginatedQuery(params, pageSize, maxResults) is about to run
InitPaginated ==
  /\ pqPc = "start"
  /\ pqPageSize \in 1..MaxPageSize
  /\ pqMaxResults \in 1..MaxMaxResults
  /\ pqData \in 0..MaxData
  /\ pqMatch \in SUBSET (1..pqData)
  /\ pqResults = <<>>
  /\ pqLEK = 0
  /\ pqScanned = 0
  /\ pqPage = <<>>

\* allResults = [], lastEvaluatedKey = null, totalScanned = 0; the do loop is entered
PaginatedStart ==
  /\ pqPc = "start"
  /\ pqPc' = "query"
  /\ UNCHANGED <<pqPageSize, pqMaxResults, pqData, pqMatch, pqResults, pqLEK, pqScanned,
                 pqPage>>
  /\ UNCHANGED pqFrame

\* the mutant of queryLimit: every page asks for pageSize items
queryLimitPageSize(pageSize, maxResults, totalScanned) == pageSize

\* Limit: Math.min(pageSize, maxResults - totalScanned)
queryLimit(pageSize, maxResults, totalScanned) == Min2(pageSize, maxResults - totalScanned)

\* the mutant of continueLoop: the loop does not look at the cursor
continueLoopAlways(lastEvaluatedKey) == TRUE

\* } while (lastEvaluatedKey)
continueLoop(lastEvaluatedKey) == lastEvaluatedKey # 0

\* if (totalScanned >= maxResults) break
reachedMax(totalScanned, maxResults) == totalScanned >= maxResults

\* the items of from+1..to that pass the filter, in index order
matching(from, to) == ascending({k \in (from + 1)..to : k \in pqMatch})

\* docClient.query answers. The store evaluates the next n items after the cursor,
\* 1 <= n <= Limit (fewer than Limit when it runs out of items or of its 1 MB), and
\* returns those that pass the filter. It returns no LastEvaluatedKey when nothing
\* is left; when it stops at the last item it may return either.
PaginatedAnswer ==
  /\ pqPc = "query"
  /\ LET limit == queryLimit(pqPageSize, pqMaxResults, pqScanned)
         left == pqData - pqLEK
     IN /\ limit >= 1
        /\ \E n \in 0..Min2(limit, left), more \in BOOLEAN :
             /\ (left > 0 => n >= 1)
             /\ (pqLEK + n < pqData => more)
             /\ (n = 0 => ~more)
             /\ LET items == matching(pqLEK, pqLEK + n)
                    lek == IF more THEN pqLEK + n ELSE 0
                    scanned == pqScanned + Len(items)
                IN /\ pqPage' = items
                   /\ pqResults' = pqResults \o items
                   /\ pqScanned' = scanned
                   /\ pqLEK' = lek
                   /\ pqPc' = IF reachedMax(scanned, pqMaxResults) THEN "done"
                              ELSE IF continueLoop(lek) THEN "query" ELSE "done"
  /\ UNCHANGED <<pqPageSize, pqMaxResults, pqData, pqMatch>>
  /\ UNCHANGED pqFrame

\* docClient.query throws: the catch logs and breaks; allResults is returned
PaginatedError ==
  /\ pqPc = "query"
  /\ pqPc' = "done"
  /\ pqPage' = <<>>
  /\ UNCHANGED <<pqPageSize, pqMaxResults, pqData, pqMatch, pqResults, pqLEK, pqScanned>>
  /\ UNCHANGED pqFrame

NextPaginated ==
  \/ PaginatedStart
  \/ PaginatedAnswer
  \/ PaginatedError

(***************************************************************************)
(* Claims about paginatedQuery                                             *)
(***************************************************************************)

\* C9: for every pageSize >= 1 and maxResults >= 1, with a store that returns at
\* most Limit items per page, paginated-query never holds more than maxResults
\* items, and every answer appends its page, in order, to what it held: the
\* result is the concatenation of the pages fetched.
C9_AtMostMaxResultsInPageOrder ==
  /\ [](Len(pqResults) <= pqMaxResults)
  /\ [][pqPc = "query" => pqResults' = pqResults \o pqPage']_vars

\* C9 witness: several pages were fetched, the result is full and items are left
C9_Witness ==
  /\ pqPc = "done"
  /\ Len(pqResults) = pqMaxResults
  /\ pqMaxResults > pqPageSize
  /\ pqLEK # 0 /\ pqLEK < pqData

\* C10: with a store that keeps answering, paginated-query ends: it reaches its
\* return, whatever the page sizes and whichever pages come back empty.
C10_PaginatedTerminates == <>(pqPc = "done")

\* C10 witness: every page came back with a cursor and no item (all filtered
\* out), over more than one page, and the query has returned
C10_Witness ==
  /\ pqPc = "done"
  /\ pqData >= 2 /\ pqPageSize = 1 /\ pqMatch = {}
  /\ pqResults = <<>> /\ pqLEK = 0 /\ pqScanned = 0

(***************************************************************************)
(* performTransactionWrite                                                 *)
(***************************************************************************)
TxErrorCodes == {Cancelled, Throttled, Transient}

IdleTransaction ==
  /\ txPc = "idle"
  /\ txAttempt = 0
  /\ txCalls = 0
  /\ txOutcomes = <<>>
  /\ txDelays = <<>>
  /\ txError = NoError

\* a call performTransactionWrite(transactItems) is about to run
InitTransaction ==
  /\ txPc = "start"
  /\ txAttempt = 0
  /\ txCalls = 0
  /\ txOutcomes = <<>>
  /\ txDelays = <<>>
  /\ txError = NoError

\* let attempt = 0; while (attempt < maxRetries): the first request is sent
TransactionStart ==
  /\ txPc = "start"
  /\ txPc' = IF txAttempt < maxRetries THEN "request" ELSE "returned"
  /\ UNCHANGED <<txAttempt, txCalls, txOutcomes, txDelays, txError>>
  /\ UNCHANGED txFrame

\* docClient.transactWrite resolves: return
TransactionOk ==
  /\ txPc = "request"
  /\ txCalls' = txCalls + 1
  /\ txOutcomes' = Append(txOutcomes, NoError)
  /\ txPc' = "returned"
  /\ UNCHANGED <<txAttempt, txDelays, txError>>
  /\ UNCHANGED txFrame

\* error.code === 'TransactionCanceledException'
isCancelled(error) == error.code = Cancelled

\* docClient.transactWrite rejects: the catch block
TransactionError ==
  /\ txPc = "request"
  /\ \E code \in TxErrorCodes : \E error \in storeErrors(code) :
       /\ txCalls' = txCalls + 1
       /\ txOutcomes' = Append(txOutcomes, error)
       /\ txAttempt' = txAttempt + 1
       /\ IF isCancelled(error) \/ txAttempt + 1 >= maxRetries
            THEN /\ txPc' = "thrown"
                 /\ txError' = error
                 /\ UNCHANGED txDelays
            ELSE /\ txDelays' = Append(txDelays, backoffDelay(txAttempt + 1))
                 /\ txPc' = "request"
                 /\ UNCHANGED txError
  /\ UNCHANGED txFrame

NextTransaction == TransactionStart \/ TransactionOk \/ TransactionError

\* C11: (1) a request that raises TransactionCanceledException ends the call: it
\* is thrown at once, the request was the only one of its attempt, and no delay
\* is waited; the caller's error middleware answers it as Conflict (409).
\* (2) a request that raises a throttling or transient fault before the last
\* attempt is followed by a delay and another request; (3) a call returns
\* normally exactly when one of its at most maxRetries requests succeeded.
C11_CancelledIsConflictOthersRetried ==
  /\ [][(txPc = "request" /\ txPc' = "thrown" /\ txError'.code = Cancelled)
          => /\ txCalls' = txCalls + 1
             /\ txAttempt' = txAttempt + 1
             /\ txDelays' = txDelays
             /\ \A env \in NodeEnvs : errorHandlerStatus(env, txError') = 409]_vars
  /\ [][(txPc = "request" /\ Len(txOutcomes') > Len(txOutcomes)
          /\ txOutcomes'[Len(txOutcomes')].code \in {Throttled, Transient}
          /\ txAttempt + 1 < maxRetries)
          => (txPc' = "request" /\ Len(txDelays') = Len(txDelays) + 1)]_vars
  /\ [](txPc = "returned" <=> (txOutcomes # <<>> /\ txOutcomes[Len(txOutcomes)] = NoError))
  /\ [](txCalls <= maxRetries /\ txCalls = Len(txOutcomes))

(***************************************************************************)
(* Ranking engine: recommendations.js.  Scores are kept in twentieths of a *)
(* point (0.3 * popularity with popularity in half points is 3 units per   *)
(* half point), category scores in half points.                            *)
(***************************************************************************)
\* the request's limit is 1..MaxLimit
MaxLimit == 2
\* user.preferences.categories has at most MaxCategories entries
MaxCategories == 2

Categories == {"science", "history"}
Difficulties == {"intermediate", "advanced"}
ReadingTimes == {3, 8}
\* popularity of a stored fact, in half points
RecPopularities == {0, 20}
RecFactIds == {1, 2}

\* the attributes of a stored fact the ranking reads; recent: created within
\* the last 7 days
FactProfiles ==
  [category : Categories, difficulty : Difficulties, readingTime : ReadingTimes,
   popularity : RecPopularities, recent : BOOLEAN]

\* the interactions the requesting user may have recorded
HistoryEntries == {[factId |-> 1, type |-> "like"], [factId |-> 1, type |-> "read"]}

\* preferences.difficulty || 'intermediate'
preferredDifficulty == "intermediate"
\* preferences.readingTime || 10, for a user whose preference is 5
maxReadingTime == 5

RECURSIVE seqsUpTo(_, _)
\* the sequences over S of length at most n
seqsUpTo(S, n) ==
  IF n = 0 THEN {<<>>}
  ELSE LET shorter == seqsUpTo(S, n - 1)
       IN shorter \cup {Append(q, x) : q \in shorter, x \in S}

IdleRecommend ==
  /\ rcPc = "idle"
  /\ rcFacts = <<>>
  /\ rcHistory = {}
  /\ rcCategories = <<>>
  /\ rcLimit = 0
  /\ rcInteractions = {}
  /\ rcScores = [c \in Categories |-> 0]
  /\ rcIdx = 0
  /\ rcAllFacts = <<>>
  /\ rcSource = "none"
  /\ rcResult = <<>>
  /\ rcStatus = 0

\* a request of an existing user is about to be served
InitRecommend ==
  /\ rcPc = "start"
  /\ rcFacts \in [RecFactIds -> FactProfiles]
  /\ rcHistory \in SUBSET HistoryEntries
  /\ rcCategories \in seqsUpTo(Categories, MaxCategories)
  /\ rcLimit = 0
  /\ rcInteractions = {}
  /\ rcScores = [c \in Categories |-> 0]
  /\ rcIdx = 0
  /\ rcAllFacts = <<>>
  /\ rcSource = "none"
  /\ rcResult = <<>>
  /\ rcStatus = 0

\* getInteractionWeight(type), in half points
getInteractionWeight(type) ==
  CASE type = "like" -> 6
    [] type = "share" -> 10
    [] type = "read" -> 2
    [] type = "view" -> 1
    [] type = "dislike" -> -4
    [] OTHER -> 0

RECURSIVE sumWeights(_)
sumWeights(entries) ==
  IF entries = {} THEN 0
  ELSE LET i == CHOOSE x \in entries : TRUE
       IN getInteractionWeight(i.type) + sumWeights(entries \ {i})

\* calculateCategoryScores once batchGetItems has returned the facts `found`:
\* every interaction on a found fact adds its weight to the fact's category
categoryScoresOf(interactions, found) ==
  [c \in Categories |->
     sumWeights({i \in interactions : i.factId \in found /\ rcFacts[i.factId].category = c})]

\* const uniqueFactIds = [...new Set(interactions.map(i => i.factId))]
uniqueFactIds(interactions) == {i.factId : i \in interactions}

\* the mutant of calculateRecommendationScore: popularity is not part of the score
calculateRecommendationScoreNoPopularity(fact, categoryScores) ==
  Max2(0, (4 * categoryScores[fact.category])
          + (IF fact.difficulty = preferredDifficulty THEN 400 ELSE 0)
          + (IF fact.readingTime <= maxReadingTime THEN 200 ELSE 0)
          + (IF fact.recent THEN 100 ELSE 0))

\* calculateRecommendationScore(fact, user, categoryScores, interactions), in
\* twentieths: 0.3 * popularity + 0.4 * categoryScore + 20 + 10 + 5, at least 0
calculateRecommendationScore(fact, categoryScores) ==
  Max2(0, (3 * fact.popularity) + (4 * categoryScores[fact.category])
          + (IF fact.difficulty = preferredDifficulty THEN 400 ELSE 0)
          + (IF fact.readingTime <= maxReadingTime THEN 200 ELSE 0)
          + (IF fact.recent THEN 100 ELSE 0))

\* array.sort((a, b) => key(b) - key(a)): the positions of keys, highest key
\* first, equal keys in their original order
sortDescending(keys) ==
  LET n == Len(keys)
      ahead(i) == {j \in 1..n : keys[j] > keys[i] \/ (keys[j] = keys[i] /\ j < i)}
  IN [r \in 1..n |-> CHOOSE i \in 1..n : Cardinality(ahead(i)) = r - 1]

\* q reordered by sortDescending of its keys
sortedBy(q, keys) == [r \in 1..Len(q) |-> q[sortDescending(keys)[r]]]

\* array.slice(0, n)
firstN(q, n) == SubSeq(q, 1, Min2(n, Len(q)))

\* Math.ceil(a / b)
ceilDiv(a, b) == (a + b - 1) \div b

\* the ids of the stored facts, in storage order
storedIds == ascending(DOMAIN rcFacts)

\* Limit: Math.ceil(limit * 2 / likedCategories.length)
categoryLimit(limit, likedCategories) == ceilDiv(limit * 2, Len(likedCategories))

\* the query of one preferred category on category-difficulty-index: it
\* evaluates at most `limit` of the items the key condition selects (Limit counts
\* the items evaluated, before the filter) and returns those that pass the filter
categoryQuery(category, limit) ==
  LET inKey(id) == /\ rcFacts[id].category = category
                   /\ rcFacts[id].difficulty = preferredDifficulty
      passes(id) == rcFacts[id].readingTime <= maxReadingTime
  IN SelectSeq(firstN(SelectSeq(storedIds, inKey), limit), passes)

\* the query on popularity-index, most popular first, Limit: limit * 2
popularityQuery(limit) ==
  LET byPopularity == sortedBy(storedIds, [k \in 1..Len(storedIds) |->
                                            rcFacts[storedIds[k]].popularity])
      passes(id) == /\ rcFacts[id].difficulty = preferredDifficulty
                    /\ rcFacts[id].readingTime <= maxReadingTime
  IN SelectSeq(firstN(byPopularity, limit * 2), passes)

\* interactions.filter(i => i.type === 'read').map(i => i.factId)
readFacts(interactions) == {i.factId : i \in {x \in interactions : x.type = "read"}}

\* the mutant of notRead: nothing is filtered out
notReadAny(id, interactions) == TRUE

\* fact => !readFacts.includes(fact.id)
notRead(id, interactions) == id \notin readFacts(interactions)

\* facts.filter(fact => !readFacts.includes(fact.id))
unreadOf(allFacts, interactions) ==
  LET keep(id) == notRead(id, interactions)
  IN SelectSeq(allFacts, keep)

\* fact => ({...fact, recommendationScore: calculateRecommendationScore(...)}),
\* the fact's own attributes being those of rcFacts[id]
withScore(id, categoryScores) ==
  [id |-> id,
   recommendationScore |-> calculateRecommendationScore(rcFacts[id], categoryScores)]

\* the mutant of stripScore: the scored object is returned as it is
stripScoreNot(fact) == fact

\* const { recommendationScore, ...factData } = fact; return factData
stripScore(fact) == [k \in DOMAIN fact \ {"recommendationScore"} |-> fact[k]]

\* filter out the read facts, score, sort by score, slice(0, limit), strip the
\* score: the objects of the response
rankedItems(allFacts, interactions, categoryScores, limit) ==
  LET unread == unreadOf(allFacts, interactions)
      scored == [k \in 1..Len(unread) |-> withScore(unread[k], categoryScores)]
      keys == [k \in 1..Len(scored) |-> scored[k].recommendationScore]
      top == firstN(sortedBy(scored, keys), limit)
  IN [k \in 1..Len(top) |-> stripScore(top[k])]

\* the ids of the objects of the response
rankFacts(allFacts, interactions, categoryScores, limit) ==
  LET items == rankedItems(allFacts, interactions, categoryScores, limit)
  IN [k \in 1..Len(items) |-> items[k].id]

\* getFallbackRecommendations: scan with Limit: limit, sort by popularity, slice
fallbackFacts(limit) ==
  LET scanned == firstN(storedIds, limit)
      keys == [k \in 1..Len(scanned) |-> rcFacts[scanned[k]].popularity]
  IN firstN(sortedBy(scanned, keys), limit)

\* the candidate sourcing begins: the first category query, or the popularity query
enterCandidates ==
  IF Len(rcCategories) > 0
    THEN rcPc' = "cat_query" /\ rcIdx' = 1
    ELSE rcPc' = "pop_query" /\ rcIdx' = rcIdx

\* the try block of generateRecommendations ends: res.json with the ranked facts
respondRanked(allFacts) ==
  /\ rcResult' = rankFacts(allFacts, rcInteractions, rcScores, rcLimit)
  /\ rcSource' = "ranked"
  /\ rcStatus' = 200
  /\ rcPc' = "done"

\* the request arrives with its limit
RecommendStart ==
  /\ rcPc = "start"
  /\ \E limit \in 1..MaxLimit : rcLimit' = limit
  /\ rcPc' = "get_user"
  /\ UNCHANGED <<rcFacts, rcHistory, rcCategories, rcInteractions, rcScores, rcIdx, rcAllFacts, rcSource, rcResult, rcStatus>>
  /\ UNCHANGED rcFrame

\* getUserData: docClient.get answers with the user
RecommendGetUserOk ==
  /\ rcPc = "get_user"
  /\ rcPc' = "history"
  /\ UNCHANGED <<rcFacts, rcHistory, rcCategories, rcLimit, rcInteractions, rcScores,
               rcIdx, rcAllFacts, rcSource, rcResult, rcStatus>>
  /\ UNCHANGED rcFrame

\* getUserData: docClient.get throws; null is returned and the handler throws
\* AppError('User not found', 404)
RecommendGetUserFail ==
  /\ rcPc = "get_user"
  /\ rcStatus' = errorHandlerStatus("production", AppError(404))
  /\ rcPc' = "done"
  /\ UNCHANGED <<rcFacts, rcHistory, rcCategories, rcLimit, rcInteractions,
               rcScores, rcIdx, rcAllFacts, rcSource, rcResult>>
  /\ UNCHANGED rcFrame

\* getUserInteractions: the query answers; calculateCategoryScores returns {}
\* at once when there is no interaction
RecommendHistoryOk ==
  /\ rcPc = "history"
  /\ rcInteractions' = rcHistory
  /\ IF rcHistory = {}
       THEN enterCandidates
       ELSE rcPc' = "batch_get" /\ rcIdx' = rcIdx
  /\ UNCHANGED <<rcFacts, rcHistory, rcCategories, rcLimit, rcScores, rcAllFacts, rcSource, rcResult, rcStatus>>
  /\ UNCHANGED rcFrame

\* getUserInteractions: the query throws; [] is returned
RecommendHistoryFail ==
  /\ rcPc = "history"
  /\ rcInteractions' = {}
  /\ enterCandidates
  /\ UNCHANGED <<rcFacts, rcHistory, rcCategories, rcLimit, rcScores, rcAllFacts, rcSource, rcResult, rcStatus>>
  /\ UNCHANGED rcFrame

\* calculateCategoryScores: batchGetItems returns the facts it retrieved
RecommendBatchGetOk ==
  /\ rcPc = "batch_get"
  /\ \E found \in SUBSET uniqueFactIds(rcInteractions) :
       rcScores' = categoryScoresOf(rcInteractions, found)
  /\ enterCandidates
  /\ UNCHANGED <<rcFacts, rcHistory, rcCategories, rcLimit, rcInteractions, rcAllFacts, rcSource, rcResult, rcStatus>>
  /\ UNCHANGED rcFrame

\* calculateCategoryScores: batchGetItems throws; the scores stay empty
RecommendBatchGetFail ==
  /\ rcPc = "batch_get"
  /\ enterCandidates
  /\ UNCHANGED <<rcFacts, rcHistory, rcCategories, rcLimit, rcInteractions,
               rcScores, rcAllFacts, rcSource, rcResult, rcStatus>>
  /\ UNCHANGED rcFrame

\* the for loop over likedCategories goes on, or the facts are ranked
afterCategoryQuery(allFacts) ==
  IF rcIdx < Len(rcCategories)
    THEN /\ rcIdx' = rcIdx + 1
         /\ UNCHANGED <<rcPc, rcResult, rcSource, rcStatus>>
    ELSE /\ rcIdx' = rcIdx
         /\ respondRanked(allFacts)

\* allFacts = allFacts.concat(result.Items || [])
appendItems(allFacts, items) == allFacts \o items

\* the query of category likedCategories[rcIdx] answers
RecommendCategoryQueryOk ==
  /\ rcPc = "cat_query"
  /\ LET items == categoryQuery(rcCategories[rcIdx],
                                categoryLimit(rcLimit, rcCategories))
     IN /\ rcAllFacts' = appendItems(rcAllFacts, items)
        /\ afterCategoryQuery(appendItems(rcAllFacts, items))
  /\ UNCHANGED <<rcFacts, rcHistory, rcCategories,
               rcLimit, rcInteractions, rcScores>>
  /\ UNCHANGED rcFrame

\* the query of category likedCategories[rcIdx] throws: logged, the loop goes on
RecommendCategoryQueryFail ==
  /\ rcPc = "cat_query"
  /\ afterCategoryQuery(rcAllFacts)
  /\ UNCHANGED <<rcFacts, rcHistory, rcCategories,
               rcLimit, rcInteractions, rcScores, rcAllFacts>>
  /\ UNCHANGED rcFrame

\* the popularity query answers
RecommendPopularityQueryOk ==
  /\ rcPc = "pop_query"
  /\ rcAllFacts' = popularityQuery(rcLimit)
  /\ respondRanked(popularityQuery(rcLimit))
  /\ UNCHANGED <<rcFacts, rcHistory, rcCategories, rcLimit,
               rcInteractions, rcScores, rcIdx>>
  /\ UNCHANGED rcFrame

\* the popularity query throws: the catch of generateRecommendations runs
\* getFallbackRecommendations
RecommendPopularityQueryFail ==
  /\ rcPc = "pop_query"
  /\ rcPc' = "fallback"
  /\ UNCHANGED <<rcFacts, rcHistory, rcCategories, rcLimit, rcInteractions, rcScores,
               rcIdx, rcAllFacts, rcSource, rcResult, rcStatus>>
  /\ UNCHANGED rcFrame

\* getFallbackRecommendations: the scan answers
RecommendFallbackOk ==
  /\ rcPc = "fallback"
  /\ rcResult' = fallbackFacts(rcLimit)
  /\ rcSource' = "fallback"
  /\ rcStatus' = 200
  /\ rcPc' = "done"
  /\ UNCHANGED <<rcFacts, rcHistory, rcCategories, rcLimit, rcInteractions,
               rcScores, rcIdx, rcAllFacts>>
  /\ UNCHANGED rcFrame

\* the mutant of fallbackCatches: the error of the scan is thrown to the handler
fallbackCatchesNot == FALSE

\* getFallbackRecommendations runs the scan in a try block whose catch returns []
fallbackCatches == TRUE

\* getFallbackRecommendations: the scan throws
RecommendFallbackFail ==
  /\ rcPc = "fallback"
  /\ rcSource' = "fallback"
  /\ IF fallbackCatches
       THEN rcStatus' = 200
       ELSE \E error \in storeErrors(Transient) :
              rcStatus' = errorHandlerStatus("production", error)
  /\ rcPc' = "done"
  /\ UNCHANGED <<rcFacts, rcHistory, rcCategories, rcLimit, rcInteractions,
               rcScores, rcIdx, rcAllFacts, rcResult>>
  /\ UNCHANGED rcFrame

NextRecommend ==
  \/ RecommendStart
  \/ RecommendGetUserOk
  \/ RecommendGetUserFail
  \/ RecommendHistoryOk
  \/ RecommendHistoryFail
  \/ RecommendBatchGetOk
  \/ RecommendBatchGetFail
  \/ RecommendCategoryQueryOk
  \/ RecommendCategoryQueryFail
  \/ RecommendPopularityQueryOk
  \/ RecommendPopularityQueryFail
  \/ RecommendFallbackOk
  \/ RecommendFallbackFail

(***************************************************************************)
(* Claims about the ranking engine                                         *)
(***************************************************************************)

\* C13: once the user has been fetched, every step that ends the request
\* answers 200 with a list of at most `limit` facts, whichever of the history
\* query, the batch-get, the candidate queries and the fallback scan threw.
C13_RankingNeverRaises ==
  [][(rcPc \in {"history", "batch_get", "cat_query", "pop_query", "fallback"}
      /\ rcPc' = "done")
     => (rcStatus' = 200 /\ Len(rcResult') <= rcLimit)]_vars

\* C13 witness: the history query, the popularity query and the fallback scan
\* all threw (the user has interactions and the table has facts, yet none was
\* seen), and the request was answered with an empty list
C13_Witness ==
  /\ rcPc = "done" /\ rcStatus = 200
  /\ rcSource = "fallback" /\ rcResult = <<>>
  /\ rcHistory # {} /\ rcInteractions = {}

\* the facts the response was picked from
candidatePool ==
  IF rcSource = "ranked" THEN Range(rcAllFacts) ELSE Range(firstN(storedIds, rcLimit))

sameButPopularity(a, b) ==
  /\ rcFacts[a].difficulty = rcFacts[b].difficulty
  /\ rcFacts[a].readingTime = rcFacts[b].readingTime
  /\ rcFacts[a].recent = rcFacts[b].recent

\* every occurrence of a in q comes before every occurrence of b
allBefore(q, a, b) == \A i, j \in 1..Len(q) : (q[i] = a /\ q[j] = b) => i < j

\* C14: for a user without interactions, of two candidates that differ only in
\* popularity (and category) the more popular one is returned whenever the
\* other is, and ahead of it.
C14_PopularityOrderWithoutHistory ==
  (rcPc = "done" /\ rcStatus = 200 /\ rcHistory = {})
    => \A a, b \in candidatePool :
         (rcFacts[a].popularity > rcFacts[b].popularity /\ sameButPopularity(a, b)
          /\ b \in Range(rcResult))
           => (a \in Range(rcResult) /\ allBefore(rcResult, a, b))

\* C14 witness: the ranking returned both facts, the more popular one first
\* although it is stored (and retrieved) after the other
C14_Witness ==
  /\ rcPc = "done" /\ rcSource = "ranked" /\ rcHistory = {}
  /\ rcResult = <<2, 1>>
  /\ rcFacts[2].popularity > rcFacts[1].popularity
  /\ sameButPopularity(2, 1)

\* the user of the end-to-end scenario: categories [science], difficulty
\* intermediate, readingTime 5 (the model's preferences), one like on a science fact
scenarioUser ==
  /\ rcCategories = <<"science">>
  /\ rcHistory = {[factId |-> 1, type |-> "like"]}
  /\ rcFacts[1].category = "science"

scienceIntermediate(id) ==
  rcFacts[id].category = "science" /\ rcFacts[id].difficulty = "intermediate"

\* C15: for the scenario user and limit = 1, when no store call fails (the
\* history and the category scores were retrieved, the category query
\* answered) and the table holds a science fact of intermediate difficulty, the
\* response is one such fact.
C15_ScenarioReturnsScienceIntermediate ==
  [][(/\ rcPc = "cat_query" /\ rcPc' = "done"
      /\ scenarioUser /\ rcLimit = 1
      /\ rcInteractions = rcHistory /\ rcScores["science"] = 6
      /\ rcAllFacts' = appendItems(rcAllFacts, categoryQuery("science", 2))
      /\ \E id \in DOMAIN rcFacts : scienceIntermediate(id))
     => (Len(rcResult') = 1 /\ scienceIntermediate(rcResult'[1]))]_vars

\* C16: no fact id appears twice in the facts of a response.
C16_NoDuplicateInResponse ==
  \A i, j \in 1..Len(rcResult) : rcResult[i] = rcResult[j] => i = j

\* the user has a read entry on the fact in the ledger
hasRead(id) == [factId |-> id, type |-> "read"] \in rcHistory

\* C17 as claimed: no fact of a response has a read entry of the requesting user.
C17_NoReadFactReturned ==
  \A k \in 1..Len(rcResult) : ~hasRead(rcResult[k])

\* C17 amended: a response produced by the ranking holds no fact that is read in
\* the interactions the request retrieved; these are the user's ledger entries
\* whenever the history query answered.  (The fallback excludes nothing.)
C17_RankedExcludesRetrievedReads ==
  (rcPc = "done" /\ rcSource = "ranked")
    => /\ \A k \in 1..Len(rcResult) : rcResult[k] \notin readFacts(rcInteractions)
       /\ rcInteractions \in {rcHistory, {}}

\* C17 witness: the user has read fact 1, the candidate query retrieved it, and
\* the response holds the other fact only
C17_Witness ==
  /\ rcPc = "done" /\ rcSource = "ranked"
  /\ hasRead(1) /\ rcInteractions = rcHistory
  /\ 1 \in Range(rcAllFacts)
  /\ rcResult = <<2>> /\ rcLimit = 2

(***************************************************************************)
(* batchQueryMultipleGSI: one query per key condition, run in parallel     *)
(***************************************************************************)
\* the call has 1..MaxConditions key conditions
MaxConditions == 2
\* a query returns at most MaxBranchItems items
MaxBranchItems == 2

\* the Items of the query of condition k when it has n of them
branchItems(k, n) == [j \in 1..n |-> <<k, j>>]

\* an async function that has not run yet
NoBranch == [pc |-> "query", attempt |-> 0, failed |-> FALSE, delay |-> 0, value |-> <<>>]

IdleMultiQuery ==
  /\ gqPc = "idle"
  /\ gqData = <<>>
  /\ gqBranch = <<>>
  /\ gqResults = <<>>

\* a call batchQueryMultipleGSI(indexName, keyConditions) is about to run
InitMultiQuery ==
  /\ gqPc = "start"
  /\ \E n \in 1..MaxConditions :
       \E sizes \in [1..n -> 0..MaxBranchItems] :
         gqData = [k \in 1..n |-> branchItems(k, sizes[k])]
  /\ gqBranch = <<>>
  /\ gqResults = <<>>

\* the for loop starts the async function of every condition: each runs up to
\* its first docClient.query; then Promise.allSettled is awaited
MultiQueryStart ==
  /\ gqPc = "start"
  /\ gqBranch' = [k \in 1..Len(gqData) |-> NoBranch]
  /\ gqPc' = "running"
  /\ UNCHANGED <<gqData, gqResults>>
  /\ UNCHANGED gqFrame

\* the query of condition k answers: return result.Items || []
MultiQueryBranchOk(k) ==
  /\ gqPc = "running"
  /\ gqBranch[k].pc = "query"
  /\ gqBranch' = [gqBranch EXCEPT ![k].pc = "fulfilled", ![k].value = gqData[k]]
  /\ UNCHANGED <<gqPc, gqData, gqResults>>
  /\ UNCHANGED gqFrame

\* catch: attempt++; if (attempt >= maxRetries) return []
givesUp(attempt) == attempt >= maxRetries

\* the query of condition k throws: the branch returns [] on its last attempt,
\* otherwise waits the delay and queries again
MultiQueryBranchError(k) ==
  /\ gqPc = "running"
  /\ gqBranch[k].pc = "query"
  /\ gqBranch' =
       IF givesUp(gqBranch[k].attempt + 1)
         THEN [gqBranch EXCEPT ![k].attempt = @ + 1, ![k].pc = "fulfilled",
                               ![k].failed = TRUE, ![k].value = <<>>]
         ELSE [gqBranch EXCEPT ![k].attempt = @ + 1,
                               ![k].delay = backoffDelay(gqBranch[k].attempt + 1)]
  /\ UNCHANGED <<gqPc, gqData, gqResults>>
  /\ UNCHANGED gqFrame

\* the mutant of collect: the items collected so far are dropped when a branch
\* returned nothing after its last attempt
collectDropOnFailure(allResults, branch) ==
  IF branch.failed THEN <<>> ELSE allResults \o branch.value

\* if (result.status === 'fulfilled') allResults.push(...result.value)
collect(allResults, branch) ==
  IF branch.pc = "fulfilled" THEN allResults \o branch.value ELSE allResults

RECURSIVE collectAll(_, _)
\* results.forEach over the first n branches
collectAll(branches, n) ==
  IF n = 0 THEN <<>> ELSE collect(collectAll(branches, n - 1), branches[n])

\* every promise has settled: the values are collected in condition order
MultiQuerySettled ==
  /\ gqPc = "running"
  /\ \A k \in 1..Len(gqBranch) : gqBranch[k].pc = "fulfilled"
  /\ gqResults' = collectAll(gqBranch, Len(gqBranch))
  /\ gqPc' = "done"
  /\ UNCHANGED <<gqData, gqBranch>>
  /\ UNCHANGED gqFrame

NextMultiQuery ==
  \/ MultiQueryStart
  \/ \E k \in 1..Len(gqBranch) : MultiQueryBranchOk(k)
  \/ \E k \in 1..Len(gqBranch) : MultiQueryBranchError(k)
  \/ MultiQuerySettled

ranksAhead(scores, i, j) == scores[i] > scores[j] \/ (scores[i] = scores[j] /\ i < j)

\* C31: when the ranking answers, the response has min(limit, number of unread
\* candidates) objects; they are unread candidates at distinct retrieval
\* positions, each ranking ahead of the next and of every candidate left out
\* (higher score first, equal scores in retrieval order), and none has a
\* recommendationScore field.
C31_TopKStableByScoreStripped ==
  [][(rcPc # "done" /\ rcPc' = "done" /\ rcSource' = "ranked") =>
       LET unread == unreadOf(rcAllFacts', rcInteractions)
           scores == [k \in 1..Len(unread) |->
                        calculateRecommendationScore(rcFacts[unread[k]], rcScores)]
           items == rankedItems(rcAllFacts', rcInteractions, rcScores, rcLimit)
           n == Len(rcResult')
       IN /\ n = Min2(rcLimit, Len(unread))
          /\ Len(items) = n
          /\ \A k \in 1..n : /\ items[k].id = rcResult'[k]
                             /\ "recommendationScore" \notin DOMAIN items[k]
          /\ \E pos \in [1..n -> 1..Len(unread)] :
               /\ \A k \in 1..n : unread[pos[k]] = rcResult'[k]
               /\ \A k, l \in 1..n : k < l => ranksAhead(scores, pos[k], pos[l])
               /\ \A k \in 1..n : \A j \in 1..Len(unread) :
                    (\A l \in 1..n : pos[l] # j) => ranksAhead(scores, pos[k], j)
     ]_vars

\* C31 witness: the two category queries retrieved the unread facts 1, 2, 1, 2
\* for limit 2 and fact 2 has the higher score; the response is fact 2 twice
\* (retrieval positions 2 and 4, a tie), fact 1 is left out
C31_Witness ==
  /\ rcPc = "done" /\ rcSource = "ranked" /\ rcLimit = 2
  /\ unreadOf(rcAllFacts, rcInteractions) = <<1, 2, 1, 2>>
  /\ calculateRecommendationScore(rcFacts[2], rcScores)
       > calculateRecommendationScore(rcFacts[1], rcScores)
  /\ rcResult = <<2, 2>>

(***************************************************************************)
(* The other writers of FACTS: PUT /facts/:id (facts.js) and               *)
(* batchUpdateFactMetrics (aws.js)                                         *)
(***************************************************************************)
NoMutation == [op |-> "none", factId |-> "f1", key |-> "title", value |-> 0,
               likeIncrement |-> 0, popularityIncrement |-> 0]

\* the body of a PUT: one field and its value.  Any key of the body is written;
\* "title" stands for the content fields, popularity is in half points
PutBodies ==
  {[key |-> "title", value |-> 0]} \cup
  {[key |-> "popularity", value |-> v] : v \in {0, 14, 400}}

\* the update of one fact in a call of batchUpdateFactMetrics (popularity
\* increment in half points)
BulkUpdates ==
  {[likeIncrement |-> l, popularityIncrement |-> i] : l \in {0, 1}, i \in {-10, 0, 10}}

IdleFactMutation ==
  /\ fmPc = "idle"
  /\ fmReq = NoMutation
  /\ fmAttempt = 0
  /\ fmStatus = 0

\* the operation starts; operations are counted with the requests
fmBegin(r, first) ==
  /\ fmPc = "idle"
  /\ nreq < MaxRequests
  /\ nreq' = nreq + 1
  /\ fmReq' = r
  /\ fmPc' = first
  /\ fmAttempt' = 0
  /\ fmStatus' = 0
  /\ UNCHANGED facts
  /\ UNCHANGED fmFrame

\* PUT /facts/:id arrives
PutFactStart ==
  \E f \in RequestFactIds, b \in PutBodies :
    fmBegin([NoMutation EXCEPT !.op = "put", !.factId = f, !.key = b.key,
                               !.value = b.value], "put_get")

\* batchUpdateFactMetrics(factUpdates) is called with one update
BulkUpdateStart ==
  \E f \in FactIds, u \in BulkUpdates :
    fmBegin([NoMutation EXCEPT !.op = "bulk", !.factId = f,
                               !.likeIncrement = u.likeIncrement,
                               !.popularityIncrement = u.popularityIncrement], "bulk_tx")

\* the operation ends
fmEnd(status) ==
  /\ fmPc' = "idle"
  /\ fmStatus' = status
  /\ UNCHANGED <<fmReq, fmAttempt, nreq>>
  /\ UNCHANGED fmFrame

\* docClient.get answers: 404 when the fact does not exist
PutFactGetOk ==
  /\ fmPc = "put_get"
  /\ IF fmReq.factId \in FactIds
       THEN /\ fmPc' = "put_update"
            /\ UNCHANGED <<fmReq, fmAttempt, fmStatus, nreq>>
            /\ UNCHANGED fmFrame
       ELSE fmEnd(404)
  /\ UNCHANGED facts

\* docClient.get or docClient.update throws: the error middleware answers
PutFactFail ==
  /\ fmPc \in {"put_get", "put_update"}
  /\ \E error \in storeErrors(Transient) : fmEnd(errorHandlerStatus("production", error))
  /\ UNCHANGED facts

\* the fact after SET key = :key for the key of the body
putUpdate(fact, key, value) ==
  IF key = "popularity" THEN [fact EXCEPT !.popularity = value] ELSE fact

\* docClient.update answers: every key of the body has been SET
PutFactUpdateOk ==
  /\ fmPc = "put_update"
  /\ facts' = [facts EXCEPT ![fmReq.factId] = putUpdate(@, fmReq.key, fmReq.value)]
  /\ fmEnd(200)

\* the fact after ADD #likes :likeIncrement SET #popularity = #popularity + :popularityIncrement
bulkUpdate(fact, likeIncrement, popularityIncrement) ==
  [fact EXCEPT !.likes = @ + likeIncrement, !.popularity = @ + popularityIncrement]

\* transactWrite answers: the update has been applied
BulkUpdateTxOk ==
  /\ fmPc = "bulk_tx"
  /\ facts' = [facts EXCEPT ![fmReq.factId] =
                 bulkUpdate(@, fmReq.likeIncrement, fmReq.popularityIncrement)]
  /\ fmEnd(0)

\* transactWrite throws: performTransactionWrite retries or throws, and
\* Promise.allSettled drops the rejection
BulkUpdateTxError ==
  /\ fmPc = "bulk_tx"
  /\ \E code \in TxErrorCodes : \E error \in storeErrors(code) :
       IF isCancelled(error) \/ fmAttempt + 1 >= maxRetries
         THEN /\ fmPc' = "idle"
              /\ fmAttempt' = fmAttempt + 1
              /\ UNCHANGED <<fmReq, fmStatus>>
         ELSE /\ fmAttempt' = fmAttempt + 1
              /\ UNCHANGED <<fmPc, fmReq, fmStatus>>
  /\ UNCHANGED <<facts, nreq>>
  /\ UNCHANGED fmFrame

NextFactMutation ==
  \/ PutFactStart
  \/ BulkUpdateStart
  \/ PutFactGetOk
  \/ PutFactFail
  \/ PutFactUpdateOk
  \/ BulkUpdateTxOk
  \/ BulkUpdateTxError

\* every writer of FACTS: the interaction routes, PUT /facts/:id and
\* batchUpdateFactMetrics, one operation at a time
NextFactWriters ==
  \/ (fmPc = "idle" /\ NextLedgerSeq)
  \/ (AllIdle /\ NextFactMutation)

\* C19: the popularity of every fact stays within [0, 100] (0..200 half points),
\* and whenever the stored popularity changes, the new value is the clamp
\* formula applied to counters read from the fact (the read of a running
\* updatePopularityScore).
C19_PopularityOnlyFromCounters ==
  /\ [](\A f \in FactIds : facts[f].popularity >= 0 /\ facts[f].popularity <= 200)
  /\ [][\A f \in FactIds :
          facts'[f].popularity # facts[f].popularity
            => \E p \in Procs : /\ pc[p] = "pop_set" /\ req[p].factId = f
                                /\ facts'[f].popularity = ClaimedPopularity(snap[p])]_vars

(***************************************************************************)
(* GET /facts: the feed and its continuation token (facts.js).  A string   *)
(* is a sequence of characters; a JSON value is a record of its kind and   *)
(* its text.  The items of a page do not bear on the token and are left    *)
(* out.                                                                    *)
(***************************************************************************)

\* a key attribute value is at most MaxKeyLen characters long
MaxKeyLen == 2

\* the characters of a key attribute value: a letter, the percent sign, and the
\* two characters JSON escapes
KeyChars == {"k", "%", "\"", "\\"}

\* a store key {id: text}, and the absent key
storeKey(text) == [kind |-> "object", text |-> text]
NoKey == [kind |-> "undefined", text |-> <<>>]

\* the cursors the store may return as LastEvaluatedKey
Cursors == {storeKey(t) : t \in seqsUpTo(KeyChars, MaxKeyLen)}

RECURSIVE jsonEscape(_)
\* the body of a JSON string literal: quote and backslash get a backslash
jsonEscape(text) ==
  IF text = <<>> THEN <<>>
  ELSE (IF Head(text) \in {"\"", "\\"} THEN <<"\\", Head(text)>> ELSE <<Head(text)>>)
         \o jsonEscape(Tail(text))

jsonQuote(text) == <<"\"">> \o jsonEscape(text) \o <<"\"">>

\* JSON.stringify of a key, a string or a number
JSONstringify(value) ==
  CASE value.kind = "object" ->
         <<"{">> \o jsonQuote(<<"i", "d">>) \o <<":">> \o jsonQuote(value.text) \o <<"}">>
    [] value.kind = "string" -> jsonQuote(value.text)
    [] value.kind = "number" -> value.text

Failure == [ok |-> FALSE, value |-> <<>>]
Success(value) == [ok |-> TRUE, value |-> value]

\* the result of a scan that put character c in front of what `rest` gave
consChar(c, rest) == IF rest.ok THEN Success(<<c>> \o rest.value) ELSE Failure

RECURSIVE jsonUnescape(_)
\* the text of a JSON string body; a bare quote, a dangling backslash or an
\* unknown escape is a SyntaxError
jsonUnescape(body) ==
  IF body = <<>> THEN Success(<<>>)
  ELSE IF Head(body) = "\"" THEN Failure
  ELSE IF Head(body) = "\\"
    THEN IF Len(body) >= 2 /\ body[2] \in {"\"", "\\"}
           THEN consChar(body[2], jsonUnescape(SubSeq(body, 3, Len(body))))
           ELSE Failure
  ELSE consChar(Head(body), jsonUnescape(Tail(body)))

\* a JSON string literal: quote, body, quote
jsonString(str) ==
  IF Len(str) >= 2 /\ str[1] = "\"" /\ str[Len(str)] = "\""
    THEN jsonUnescape(SubSeq(str, 2, Len(str) - 1))
    ELSE Failure

Digits == {"2", "3", "5", "7"}

\* JSON.parse: an object {"id": string}, a string or a number; anything else
\* the characters of the model can spell is a SyntaxError
JSONparse(str) ==
  LET open == <<"{">> \o jsonQuote(<<"i", "d">>) \o <<":">>
      n == Len(str)
  IN IF n > Len(open) /\ SubSeq(str, 1, Len(open)) = open /\ str[n] = "}"
       THEN LET s == jsonString(SubSeq(str, Len(open) + 1, n - 1))
            IN IF s.ok THEN Success(storeKey(s.value)) ELSE Failure
     ELSE IF n >= 1 /\ \A i \in 1..n : str[i] \in Digits
       THEN Success([kind |-> "number", text |-> str])
     ELSE LET s == jsonString(str)
          IN IF s.ok THEN Success([kind |-> "string", text |-> s.value]) ELSE Failure

\* letters and digits are unreserved; the characters below are escaped
Escaped == {"{", "}", "\"", ":", "%", "\\"}

\* the two hexadecimal digits of the character's code
percentCode(c) ==
  CASE c = "{" -> <<"7", "B">>
    [] c = "}" -> <<"7", "D">>
    [] c = "\"" -> <<"2", "2">>
    [] c = ":" -> <<"3", "A">>
    [] c = "%" -> <<"2", "5">>
    [] c = "\\" -> <<"5", "C">>

RECURSIVE encodeURIComponent(_)
encodeURIComponent(str) ==
  IF str = <<>> THEN <<>>
  ELSE (IF Head(str) \in Escaped THEN <<"%">> \o percentCode(Head(str)) ELSE <<Head(str)>>)
         \o encodeURIComponent(Tail(str))

\* the mutant of decodeURIComponent: the string is taken as it is
decodeURIComponentNot(str) == Success(str)

RECURSIVE decodeURIComponent(_)
\* a percent sign that is not followed by the two digits of a code is a URIError
decodeURIComponent(str) ==
  IF str = <<>> THEN Success(<<>>)
  ELSE IF Head(str) # "%" THEN consChar(Head(str), decodeURIComponent(Tail(str)))
  ELSE IF Len(str) >= 3 /\ \E c \in Escaped : percentCode(c) = SubSeq(str, 2, 3)
    THEN consChar(CHOOSE c \in Escaped : percentCode(c) = SubSeq(str, 2, 3),
                  decodeURIComponent(SubSeq(str, 4, Len(str))))
  ELSE Failure

\* JSON.parse(decodeURIComponent(lastKey)) inside the try block
parseLastKey(lastKey) ==
  LET decoded == decodeURIComponent(lastKey)
  IN IF decoded.ok THEN JSONparse(decoded.value) ELSE Failure

\* nextKey: the encoded LastEvaluatedKey, or null
nextKeyOf(lastEvaluatedKey) ==
  IF lastEvaluatedKey # NoKey THEN encodeURIComponent(JSONstringify(lastEvaluatedKey)) ELSE <<>>

\* the strings that stop short of the end of str
properPrefixes(str) == {SubSeq(str, 1, n) : n \in 1..(Len(str) - 1)}

\* lastKey values of a client that did not take a token from a response
Garbage == {<<"%">>, <<"k">>, <<"2">>, <<"%", "7", "B">>}

\* the lastKey a client may send: none, the token of the last page, a truncated
\* copy of it, or a string of its own making
ClientLastKeys == {<<>>} \cup {fdNextKey} \cup properPrefixes(fdNextKey) \cup Garbage

IdleFeed ==
  /\ fdPc = "idle"
  /\ fdLastKey = <<>>
  /\ fdExclude = FALSE
  /\ fdStartKey = NoKey
  /\ fdLEK = NoKey
  /\ fdHasMore = FALSE
  /\ fdNextKey = <<>>
  /\ fdStatus = 0

\* res.json: the page and its pagination block
feedRespond ==
  /\ fdHasMore' = (fdLEK' # NoKey)
  /\ fdNextKey' = nextKeyOf(fdLEK')
  /\ fdStatus' = 200
  /\ fdPc' = "idle"

\* a request arrives: the handler builds params, adds the pagination key and
\* awaits the query; an undecodable lastKey throws AppError 400 before that
FeedStart ==
  /\ fdPc = "idle"
  /\ \E lastKey \in ClientLastKeys, exclude \in BOOLEAN :
       /\ fdLastKey' = lastKey
       /\ fdExclude' = exclude
       /\ IF lastKey # <<>>
            THEN LET parsed == parseLastKey(lastKey)
                 IN IF parsed.ok
                      THEN /\ fdStartKey' = parsed.value
                           /\ fdStatus' = 0
                           /\ fdPc' = "query"
                      ELSE /\ fdStartKey' = NoKey
                           /\ fdStatus' = 400
                           /\ fdPc' = "idle"
            ELSE /\ fdStartKey' = NoKey
                 /\ fdStatus' = 0
                 /\ fdPc' = "query"
  /\ UNCHANGED <<fdLEK, fdHasMore, fdNextKey>>
  /\ UNCHANGED fdFrame

\* docClient.query answers with a page and, when more follows, a cursor
FeedQueryOk ==
  /\ fdPc = "query"
  /\ \E k \in Cursors \cup {NoKey} : fdLEK' = k
  /\ IF fdExclude
       THEN /\ fdPc' = "readFacts"
            /\ UNCHANGED <<fdHasMore, fdNextKey, fdStatus>>
       ELSE feedRespond
  /\ UNCHANGED <<fdLastKey, fdExclude, fdStartKey>>
  /\ UNCHANGED fdFrame

\* docClient.query throws: the error reaches the error handler
FeedQueryFail ==
  /\ fdPc = "query"
  /\ fdStatus' = 500
  /\ fdPc' = "idle"
  /\ UNCHANGED <<fdLastKey, fdExclude, fdStartKey, fdLEK, fdHasMore, fdNextKey>>
  /\ UNCHANGED fdFrame

\* getReadFactsForUser returns: the ids read, or [] when its query threw
FeedReadFactsReturn ==
  /\ fdPc = "readFacts"
  /\ fdLEK' = fdLEK
  /\ feedRespond
  /\ UNCHANGED <<fdLastKey, fdExclude, fdStartKey>>
  /\ UNCHANGED fdFrame

NextFeed == FeedStart \/ FeedQueryOk \/ FeedQueryFail \/ FeedReadFactsReturn

\* a request arrives at the idle feed handler
feedArrives == fdPc = "idle" /\ fdVars' # fdVars

\* lastKey values that are not the encoding of any JSON text: a token cut short,
\* a lone percent sign, a bare letter, an encoded opening brace
Undecodable ==
  properPrefixes(fdNextKey) \cup {<<"%">>, <<"k">>, <<"%", "7", "B">>}

\* C22: a request whose lastKey is the nextKey of the last page queries the
\* store with ExclusiveStartKey equal to the LastEvaluatedKey that page came
\* with; a page has hasMore exactly when it has a nextKey, and that exactly
\* when the store returned a LastEvaluatedKey; a request whose lastKey cannot
\* be decoded is answered 400 and no store query is awaited.
C22_TokenRoundTrips ==
  /\ [][(feedArrives /\ fdNextKey # <<>> /\ fdLastKey' = fdNextKey)
          => (fdPc' = "query" /\ fdStartKey' = fdLEK)]_vars
  /\ [][(feedArrives /\ fdLastKey' \in Undecodable)
          => (fdPc' = "idle" /\ fdStatus' = 400 /\ fdStartKey' = NoKey)]_vars
  /\ [](fdPc = "idle" =>
          /\ fdHasMore <=> fdNextKey # <<>>
          /\ fdHasMore <=> fdLEK # NoKey)

\* C22 witness: the page's cursor held a percent sign and a quote; the next
\* request sent the page's token and queries from that cursor
C22_Witness ==
  /\ fdPc = "query"
  /\ fdLEK = storeKey(<<"%", "\"">>)
  /\ fdLastKey = fdNextKey
  /\ fdLastKey = <<"%", "7", "B", "%", "2", "2", "i", "d", "%", "2", "2", "%", "3", "A",
                   "%", "2", "2", "%", "2", "5", "%", "5", "C", "%", "2", "2", "%", "2", "2",
                   "%", "7", "D">>
  /\ fdStartKey = fdLEK

(***************************************************************************)
(* calculateTrendingScore (facts.js).  Popularity is in half points, the   *)
(* weighted engagement in twentieths of a point, the decay in millionths.  *)
(***************************************************************************)

\* likes, shares and views range over 0..MaxTrendCount
MaxTrendCount == 2

TrendPopularities == {0, 1, 200}

\* ages in hours: just created, an hour, a day, two days
Ages == {0, 1, 24, 48}

TrendFacts ==
  [popularity : TrendPopularities, likes : 0..MaxTrendCount, shares : 0..MaxTrendCount,
   views : 0..MaxTrendCount]

IdleTrending ==
  /\ trPc = "idle"
  /\ trFact = [popularity |-> 0, likes |-> 0, shares |-> 0, views |-> 0]
  /\ trAges = <<0, 0>>
  /\ trScores = <<0, 0>>

\* two facts alike in everything but createdAt
InitTrending ==
  /\ trPc = "input"
  /\ trFact \in TrendFacts
  /\ trAges \in {a \in Ages \X Ages : a[1] < a[2]}
  /\ trScores = <<0, 0>>

\* the mutant of timeDecay: Math.exp(ageInHours / 24), the sign lost
timeDecayGrowing(ageInHours) ==
  CASE ageInHours = 0 -> 1000000
    [] ageInHours = 1 -> 1042547
    [] ageInHours = 24 -> 2718282
    [] ageInHours = 48 -> 7389056

\* Math.exp(-ageInHours / 24), in millionths
timeDecay(ageInHours) ==
  CASE ageInHours = 0 -> 1000000
    [] ageInHours = 1 -> 959189
    [] ageInHours = 24 -> 367879
    [] ageInHours = 48 -> 135335

\* popularity*0.4 + likes*0.3 + shares*0.2 + views*0.1, in twentieths
engagementSum(fact) ==
  (fact.popularity * 4) + (fact.likes * 6) + (fact.shares * 4) + (fact.views * 2)

calculateTrendingScore(fact, ageInHours) == engagementSum(fact) * timeDecay(ageInHours)

\* the score of each of the two facts is computed
TrendingScores ==
  /\ trPc = "input"
  /\ trScores' = <<calculateTrendingScore(trFact, trAges[1]),
                   calculateTrendingScore(trFact, trAges[2])>>
  /\ trPc' = "done"
  /\ UNCHANGED <<trFact, trAges>>
  /\ UNCHANGED trFrame

NextTrending == TrendingScores

MaxTags == 2

Tags == {"t1", "t2", "t3"}

SimilarityPopularities == {0, 10, 30}

SimilarityFacts ==
  [category : Categories, tags : seqsUpTo(Tags, MaxTags), readingTime : ReadingTimes,
   popularity : SimilarityPopularities]

NoFact == [category |-> "science", tags |-> <<>>, readingTime |-> 3, popularity |-> 0]

IdleSimilarity ==
  /\ smPc = "idle"
  /\ smSource = NoFact
  /\ smTarget = NoFact
  /\ smScore = 0

InitSimilarity ==
  /\ smPc = "input"
  /\ smSource \in SimilarityFacts
  /\ smTarget \in SimilarityFacts
  /\ smScore = 0

abs(x) == IF x < 0 THEN 0 - x ELSE x

\* the mutant of commonTags: the tags are compared position by position
commonTagsByPosition(sourceTags, targetTags) ==
  {sourceTags[i] : i \in {j \in 1..Len(sourceTags) :
                            j <= Len(targetTags) /\ sourceTags[j] = targetTags[j]}}

\* [...sourceTagsSet].filter(tag => targetTagsSet.has(tag))
commonTags(sourceTags, targetTags) ==
  {tag \in Range(sourceTags) : tag \in Range(targetTags)}

calculateSimilarityScore(sourceFact, targetFact) ==
  (IF sourceFact.category = targetFact.category THEN 50 ELSE 0)
    + Cardinality(commonTags(sourceFact.tags, targetFact.tags)) * 10
    + (IF abs(sourceFact.readingTime - targetFact.readingTime) <= 1 THEN 10 ELSE 0)
    + (IF abs(sourceFact.popularity - targetFact.popularity) <= 10 THEN 5 ELSE 0)

\* the score of the target against the source is computed
SimilarityScore ==
  /\ smPc = "input"
  /\ smScore' = calculateSimilarityScore(smSource, smTarget)
  /\ smPc' = "done"
  /\ UNCHANGED <<smSource, smTarget>>
  /\ UNCHANGED smFrame

NextSimilarity == SimilarityScore

\* the fact without the tag
withoutTag(fact, tag) == [fact EXCEPT !.tags = SelectSeq(@, LAMBDA t : t # tag)]

\* the fact with the tag added to its array
withTag(fact, tag) == [fact EXCEPT !.tags = Append(@, tag)]

\* C27: when the target is the twin of a source that has a tag, the source
\* without one of its tags scores strictly less against the source than the
\* twin does; and for every source and target, a target that gains a tag of
\* the source it did not have scores exactly 10 more, everything else equal.
C27_TagOverlapAddsTen ==
  smPc = "done" =>
    /\ smTarget = smSource =>
         \A tag \in Range(smSource.tags) :
           calculateSimilarityScore(smSource, withoutTag(smSource, tag)) < smScore
    /\ \A tag \in Range(smSource.tags) \ Range(smTarget.tags) :
         calculateSimilarityScore(smSource, withTag(smTarget, tag)) = smScore + 10

\* C27 witness: the twin of a fact tagged t1, t2 scores 85 against it, the fact
\* tagged t2 alone would score 75
C27_Witness ==
  /\ smPc = "done"
  /\ smSource.tags = <<"t1", "t2">>
  /\ smTarget = smSource
  /\ smScore = 85
  /\ calculateSimilarityScore(smSource, withoutTag(smSource, "t1")) = 75

(***************************************************************************)
(* GET /facts: the query strategy, the read filter and the difficulty      *)
(* filter (facts.js).  The validators of the route are never evaluated     *)
(* (no validationResult), so req.query arrives as sent.                    *)
(***************************************************************************)

\* limit of a request is 1..MaxFeedLimit
MaxFeedLimit == 2

FeedFactIds == {1, 2}
\* createdAt of the stored facts (hours since some origin): fact 2 is the newer
feedCreatedAt == [id \in FeedFactIds |-> IF id = 1 THEN 0 ELSE 23]
\* the hour of the request
feedNow == 24
\* popularity of the stored facts, in half points: fact 1 is the more popular
feedPopularity == [id \in FeedFactIds |-> IF id = 1 THEN 200 ELSE 0]
FeedCategories == {"science", "history"}
FeedDifficulties == {"beginner", "advanced"}
FeedTables ==
  {[id \in FeedFactIds |-> [category |-> c[id], difficulty |-> d[id],
                            popularity |-> feedPopularity[id],
                            createdAt |-> feedCreatedAt[id]]] :
     c \in [FeedFactIds -> FeedCategories], d \in [FeedFactIds -> FeedDifficulties]}

\* the token a page of the store's cursor "k" came with, and a string that is not a token
FeedPageLastKeys == {<<>>, nextKeyOf(storeKey(<<"k">>)), <<"%">>}

\* req.query as a client may send it; "" is a parameter left out
FeedRequests ==
  [category : {"", "science", "Science"}, difficulty : {""} \cup FeedDifficulties,
   sortBy : {"popularity", "recent", "trending"}, userId : {"", "u1"},
   excludeRead : {"", "true", "false"}, limit : 1..MaxFeedLimit,
   lastKey : FeedPageLastKeys]

NoFeedRequest ==
  [category |-> "", difficulty |-> "", sortBy |-> "popularity", userId |-> "",
   excludeRead |-> "", limit |-> 1, lastKey |-> <<>>]

NoParams ==
  [IndexName |-> "", category |-> "", difficulty |-> "", Limit |-> 0,
   ScanIndexForward |-> TRUE, ExclusiveStartKey |-> NoKey]

IdleFeedPage ==
  /\ fpPc = "idle"
  /\ fpTable = [id \in FeedFactIds |-> [category |-> "science", difficulty |-> "beginner",
                                       popularity |-> feedPopularity[id],
                                       createdAt |-> feedCreatedAt[id]]]
  /\ fpReads = {}
  /\ fpReq = NoFeedRequest
  /\ fpParams = NoParams
  /\ fpCalls = <<>>
  /\ fpItems = <<>>
  /\ fpFacts = <<>>
  /\ fpStatus = 0

\* a request is about to be served
InitFeedPage ==
  /\ fpPc = "start"
  /\ fpTable \in FeedTables
  /\ fpReads \in SUBSET FeedFactIds
  /\ fpReq = NoFeedRequest
  /\ fpParams = NoParams
  /\ fpCalls = <<>>
  /\ fpItems = <<>>
  /\ fpFacts = <<>>
  /\ fpStatus = 0

\* String.prototype.toLowerCase on the category names of the model
toLowerCase(str) == IF str = "Science" THEN "science" ELSE str

\* the if / else if chain that builds params from category, difficulty and
\* sortBy; category and difficulty of params are the values of the key
\* condition ("": the attribute is not in the key condition)
chooseParams(q) ==
  IF q.category # "" /\ q.difficulty # ""
    THEN [IndexName |-> "category-difficulty-index",
          category |-> toLowerCase(q.category), difficulty |-> q.difficulty,
          Limit |-> q.limit, ScanIndexForward |-> (q.sortBy # "recent"),
          ExclusiveStartKey |-> NoKey]
  ELSE IF q.category # ""
    THEN [IndexName |-> "category-createdAt-index",
          category |-> toLowerCase(q.category), difficulty |-> "",
          Limit |-> q.limit, ScanIndexForward |-> (q.sortBy # "recent"),
          ExclusiveStartKey |-> NoKey]
  ELSE IF q.sortBy = "popularity"
    THEN [IndexName |-> "popularity-index", category |-> "", difficulty |-> "",
          Limit |-> q.limit, ScanIndexForward |-> FALSE, ExclusiveStartKey |-> NoKey]
  ELSE [IndexName |-> "createdAt-index", category |-> "", difficulty |-> "",
        Limit |-> q.limit, ScanIndexForward |-> FALSE, ExclusiveStartKey |-> NoKey]

\* the sort key of an index: the RANGE attribute of its KeySchema
rangeKey(indexName, fact) ==
  CASE indexName = "category-createdAt-index" -> fact.createdAt
    [] indexName = "category-difficulty-index" -> IF fact.difficulty = "advanced" THEN 0 ELSE 1
    [] indexName = "popularity-index" -> fact.popularity
    [] indexName = "createdAt-index" -> fact.createdAt

\* docClient.query on an index of FACTS: the items of the key condition in the
\* order of the range key, after the start key, at most Limit of them
queryFacts(params) ==
  LET inKey(id) == /\ params.category # "" => fpTable[id].category = params.category
                   /\ params.difficulty # "" => fpTable[id].difficulty = params.difficulty
      selected == SelectSeq(ascending(FeedFactIds), inKey)
      keys == [k \in 1..Len(selected) |->
                 IF params.ScanIndexForward
                   THEN 0 - rangeKey(params.IndexName, fpTable[selected[k]])
                   ELSE rangeKey(params.IndexName, fpTable[selected[k]])]
      ordered == sortedBy(selected, keys)
      rest == IF params.ExclusiveStartKey = NoKey THEN ordered
              ELSE SubSeq(ordered, 2, Len(ordered))
  IN firstN(rest, params.Limit)

\* GlobalSecondaryIndexes of the INTERACTIONS table in createTablesIfNotExists
interactionsIndexes == {"factId-timestamp-index", "type-timestamp-index"}

\* what getReadFactsForUser may return: its query names userId-timestamp-index;
\* the store rejects a query on an index the table does not have, and any
\* query may fail; the catch returns []
readFactsResults ==
  IF "userId-timestamp-index" \in interactionsIndexes
    THEN {ascending(fpReads), <<>>}
    ELSE {<<>>}

\* calculateTrendingScore(fact) at the time of the request
feedTrendingScore(fact) ==
  calculateTrendingScore([popularity |-> fact.popularity, likes |-> 0, shares |-> 0,
                          views |-> 0], feedNow - fact.createdAt)

\* the mutant of keepDifficulty: the filter after the query is left out
keepDifficultyAny(q, params, fact) == TRUE

\* difficulty && !params.KeyConditionExpression?.includes('difficulty'):
\* facts.filter(fact => fact.difficulty === difficulty)
keepDifficulty(q, params, fact) ==
  (q.difficulty # "" /\ params.difficulty = "") => fact.difficulty = q.difficulty

\* the three branches that sort the page after the query
sortPage(q, params, page) ==
  LET trending == [k \in 1..Len(page) |-> feedTrendingScore(fpTable[page[k]])]
      popularity == [k \in 1..Len(page) |-> fpTable[page[k]].popularity]
      createdAt == [k \in 1..Len(page) |-> fpTable[page[k]].createdAt]
  IN IF q.sortBy = "trending" THEN sortedBy(page, trending)
     ELSE IF q.sortBy = "popularity" /\ params.IndexName # "popularity-index"
       THEN sortedBy(page, popularity)
     ELSE IF q.sortBy = "recent"
             /\ params.IndexName \notin {"category-createdAt-index", "createdAt-index"}
       THEN sortedBy(page, createdAt)
     ELSE page

\* the code from the read filter to res.json
feedPageRespond(items, readIds) ==
  LET unread(id) == id \notin Range(readIds)
      kept(id) == keepDifficulty(fpReq, fpParams, fpTable[id])
  IN /\ fpFacts' = sortPage(fpReq, fpParams, SelectSeq(SelectSeq(items, unread), kept))
     /\ fpStatus' = 200
     /\ fpPc' = "done"

\* the request arrives: params are built, the token is parsed and the query on
\* FACTS is issued; a token that cannot be parsed ends the request with 400
FeedPageStart ==
  /\ fpPc = "start"
  /\ \E q \in FeedRequests :
       LET parsed == IF q.lastKey = <<>> THEN Success(NoKey) ELSE parseLastKey(q.lastKey)
       IN /\ fpReq' = q
          /\ IF parsed.ok
               THEN /\ fpParams' = [chooseParams(q) EXCEPT !.ExclusiveStartKey = parsed.value]
                    /\ fpCalls' = Append(fpCalls, "FACTS")
                    /\ fpPc' = "query"
                    /\ fpStatus' = fpStatus
               ELSE /\ fpParams' = chooseParams(q)
                    /\ fpCalls' = fpCalls
                    /\ fpPc' = "done"
                    /\ fpStatus' = 400
  /\ UNCHANGED <<fpTable, fpReads, fpItems, fpFacts>>
  /\ UNCHANGED fpFrame

\* the query on FACTS answers; with userId && excludeRead the query of
\* getReadFactsForUser is issued
FeedPageQueryOk ==
  /\ fpPc = "query"
  /\ fpItems' = queryFacts(fpParams)
  /\ IF fpReq.userId # "" /\ fpReq.excludeRead # ""
       THEN /\ fpCalls' = Append(fpCalls, "INTERACTIONS")
            /\ fpPc' = "readFacts"
            /\ UNCHANGED <<fpFacts, fpStatus>>
       ELSE /\ fpCalls' = fpCalls
            /\ feedPageRespond(queryFacts(fpParams), <<>>)
  /\ UNCHANGED <<fpTable, fpReads, fpReq, fpParams>>
  /\ UNCHANGED fpFrame

\* the query on FACTS throws: the error reaches the error handler
FeedPageQueryFail ==
  /\ fpPc = "query"
  /\ fpStatus' = 500
  /\ fpPc' = "done"
  /\ UNCHANGED <<fpTable, fpReads, fpReq, fpParams, fpCalls, fpItems, fpFacts>>
  /\ UNCHANGED fpFrame

\* getReadFactsForUser returns
FeedPageReadFacts ==
  /\ fpPc = "readFacts"
  /\ \E readIds \in readFactsResults : feedPageRespond(fpItems, readIds)
  /\ UNCHANGED <<fpTable, fpReads, fpReq, fpParams, fpCalls, fpItems>>
  /\ UNCHANGED fpFrame

NextFeedPage == FeedPageStart \/ FeedPageQueryOk \/ FeedPageQueryFail \/ FeedPageReadFacts

\* the number of docClient.query calls on a table
callsOn(table) == Cardinality({k \in 1..Len(fpCalls) : fpCalls[k] = table})

C33_NoReadFactInPage ==
  /\ []((fpPc = "done" /\ fpStatus = 200 /\ fpReq.userId # ""
          /\ fpReq.excludeRead = "true")
         => \A k \in 1..Len(fpFacts) : fpFacts[k] \notin fpReads)
  /\ [][fpPc = "readFacts" => fpStatus' = 200]_vars

(***************************************************************************)
(* The client's response cache (ApiCache) and the calls of ApiService that *)
(* use it (unnamed/part_005).  A key is the string generateKey builds, as  *)
(* a sequence: the characters of the namespace, then ":" and the tokens of *)
(* the JSON text of the sorted params.  Time is in units of 5 minutes.     *)
(***************************************************************************)

\* configs.facts.maxItems (200 in the code) and the maxItems of the default
\* config (100 in the code), scaled down so that a namespace can fill up
MaxItemsFacts == 2
MaxItemsDefault == 1
\* Date.now() is 0..MaxClock
MaxClock == 2
\* the client completes at most MaxWrites writes
MaxWrites == 1

nsFact == <<"f", "a", "c", "t">>
nsFacts == <<"f", "a", "c", "t", "s">>
nsRecommendations ==
  <<"r", "e", "c", "o", "m", "m", "e", "n", "d", "a", "t", "i", "o", "n", "s">>
nsUser == <<"u", "s", "e", "r">>
Namespaces == {nsFact, nsFacts, nsRecommendations, nsUser}

\* getConfig(namespace).ttl: facts 10 minutes, recommendations 5, user 30, default 5
ttlOf(namespace) ==
  IF namespace = nsFacts THEN 2
  ELSE IF namespace = nsRecommendations THEN 1
  ELSE IF namespace = nsUser THEN 6
  ELSE 1

\* getConfig(namespace).maxItems; recommendations (50) and user (20) are
\* scaled like the default
maxItemsOf(namespace) == IF namespace = nsFacts THEN MaxItemsFacts ELSE MaxItemsDefault

\* Object.keys(params).sort(): the parameter names of the model in sorted order
ParamOrder == <<"factId", "limit", "userId">>

\* params of a call: not given, or an object (a function from names to values)
NoParamsGiven == [given |-> FALSE, obj |-> <<>>]
paramsObject(obj) == [given |-> TRUE, obj |-> obj]
userOnly == paramsObject([n \in {"userId"} |-> "u1"])
userAndLimit(limit) ==
  paramsObject([n \in {"limit", "userId"} |-> IF n = "limit" THEN limit ELSE "u1"])
factOnly(factId) == paramsObject([n \in {"factId"} |-> factId])

RECURSIVE membersText(_, _)
\* the members of the JSON text of obj, from position k of ParamOrder on, each
\* after a comma
membersText(obj, k) ==
  IF k > Len(ParamOrder) THEN <<>>
  ELSE IF ParamOrder[k] \in DOMAIN obj
    THEN <<",", ParamOrder[k], ":", obj[ParamOrder[k]]>> \o membersText(obj, k + 1)
  ELSE membersText(obj, k + 1)

\* generateKey(namespace, params)
generateKey(namespace, params) ==
  IF ~params.given THEN namespace
  ELSE LET members == membersText(params.obj, 1)
       IN namespace \o <<":", "{">>
            \o (IF members = <<>> THEN <<>> ELSE Tail(members)) \o <<"}">>

\* key.startsWith(prefix)
startsWith(key, prefix) ==
  Len(prefix) <= Len(key) /\ SubSeq(key, 1, Len(prefix)) = prefix

\* the entries of the Map without those of the keys in `keys`
deleteKeys(cache, keys) ==
  LET kept(item) == item.key \notin keys
  IN SelectSeq(cache, kept)

\* cleanup: .filter(([key]) => key.startsWith(namespace))
inNamespace(key, namespace) == startsWith(key, namespace)

\* cleanup(namespace) at time now: drop the expired entries, then of the entries
\* whose key starts with the namespace all but the maxItems newest
cleanup(cache, namespace, now) ==
  LET alive(item) == ~(now > item.expiresAt)
      live == SelectSeq(cache, alive)
      mine(item) == inNamespace(item.key, namespace)
      namespaceItems == SelectSeq(live, mine)
      newestFirst == sortedBy(namespaceItems,
                              [k \in 1..Len(namespaceItems) |-> namespaceItems[k].timestamp])
      itemsToRemove == SubSeq(newestFirst, maxItemsOf(namespace) + 1, Len(newestFirst))
  IN deleteKeys(live, {itemsToRemove[k].key : k \in 1..Len(itemsToRemove)})

\* Map.set: a new key goes to the end, a key already there keeps its place
mapSet(cache, item) ==
  IF \E k \in 1..Len(cache) : cache[k].key = item.key
    THEN [k \in 1..Len(cache) |-> IF cache[k].key = item.key THEN item ELSE cache[k]]
    ELSE Append(cache, item)

\* set(namespace, data, params) at time now
cacheSet(cache, namespace, data, params, now) ==
  mapSet(cleanup(cache, namespace, now),
         [key |-> generateKey(namespace, params), data |-> data, timestamp |-> now,
          expiresAt |-> now + ttlOf(namespace)])

\* the entry get(namespace, params) returns at time now (<<>>: null) ...
cacheGetItem(cache, namespace, params, now) ==
  LET key == generateKey(namespace, params)
      hit(item) == item.key = key /\ ~(now > item.expiresAt)
  IN SelectSeq(cache, hit)

\* ... and the Map it leaves: an expired entry of the key is deleted
cacheGetMap(cache, namespace, params, now) ==
  LET key == generateKey(namespace, params)
      kept(item) == ~(item.key = key /\ now > item.expiresAt)
  IN SelectSeq(cache, kept)

\* invalidate(namespace, params)
invalidate(cache, namespace, params) ==
  IF params.given
    THEN deleteKeys(cache, {generateKey(namespace, params)})
    ELSE LET kept(item) == ~(startsWith(item.key, namespace \o <<":">>) \/ item.key = namespace)
         IN SelectSeq(cache, kept)

NoCall == [op |-> "none", namespace |-> <<>>, params |-> NoParamsGiven, type |-> "none"]
NoAnswer == [from |-> "none", data |-> [user |-> 0, likes |-> 0], expiresAt |-> 0]

IdleClient ==
  /\ ccPc = "idle"
  /\ ccCache = <<>>
  /\ ccNow = 0
  /\ ccReq = NoCall
  /\ ccDone = [user |-> 0, likes |-> 0]
  /\ ccAnswer = NoAnswer

\* time passes
ClientTick ==
  /\ ccNow < MaxClock
  /\ ccNow' = ccNow + 1
  /\ UNCHANGED <<ccPc, ccCache, ccReq, ccDone, ccAnswer>>
  /\ UNCHANGED ccFrame

\* the params the calls of the model pass to the cache
CacheParams(namespace) ==
  IF namespace = nsFact THEN {factOnly("f1"), factOnly("f2")}
  ELSE {NoParamsGiven, userOnly, userAndLimit("1")}

\* what a call got from cache.get
answerOf(items) ==
  IF items = <<>> THEN NoAnswer
  ELSE [from |-> "cache", data |-> items[1].data, expiresAt |-> items[1].expiresAt]

\* cache.set(namespace, data, params) called on the cache
CacheSet ==
  /\ ccPc = "idle"
  /\ \E namespace \in {nsFact, nsFacts} : \E params \in CacheParams(namespace) :
       /\ ccCache' = cacheSet(ccCache, namespace, ccDone, params, ccNow)
       /\ ccReq' = [op |-> "set", namespace |-> namespace, params |-> params, type |-> "none"]
  /\ UNCHANGED <<ccPc, ccNow, ccDone, ccAnswer>>
  /\ UNCHANGED ccFrame

\* cache.get(namespace, params) called on the cache
CacheGet ==
  /\ ccPc = "idle"
  /\ \E namespace \in {nsFact, nsFacts} : \E params \in CacheParams(namespace) :
       /\ ccAnswer' = answerOf(cacheGetItem(ccCache, namespace, params, ccNow))
       /\ ccCache' = cacheGetMap(ccCache, namespace, params, ccNow)
       /\ ccReq' = [op |-> "get", namespace |-> namespace, params |-> params, type |-> "none"]
  /\ UNCHANGED <<ccPc, ccNow, ccDone>>
  /\ UNCHANGED ccFrame

\* cache.invalidate(namespace, params) called on the cache
CacheInvalidate ==
  /\ ccPc = "idle"
  /\ \E namespace \in {nsFact, nsFacts} :
     \E params \in CacheParams(namespace) \cup {NoParamsGiven} :
       /\ ccCache' = invalidate(ccCache, namespace, params)
       /\ ccReq' = [op |-> "invalidate", namespace |-> namespace, params |-> params,
                    type |-> "none"]
  /\ UNCHANGED <<ccPc, ccNow, ccDone, ccAnswer>>
  /\ UNCHANGED ccFrame

NextCache == CacheSet \/ CacheGet \/ CacheInvalidate \/ ClientTick

\* the start of getFacts and getRecommendedFacts: a cached value is returned,
\* otherwise the request is sent
readThrough(op, namespace, params) ==
  LET items == cacheGetItem(ccCache, namespace, params, ccNow)
  IN /\ ccCache' = cacheGetMap(ccCache, namespace, params, ccNow)
     /\ ccReq' = [op |-> op, namespace |-> namespace, params |-> params, type |-> "none"]
     /\ IF items # <<>>
          THEN ccAnswer' = answerOf(items) /\ ccPc' = "idle"
          ELSE ccAnswer' = NoAnswer /\ ccPc' = op

\* the response of api.get arrives: it is cached and returned
responseArrives ==
  /\ ccCache' = cacheSet(ccCache, ccReq.namespace, ccDone, ccReq.params, ccNow)
  /\ ccAnswer' = [from |-> "network", data |-> ccDone, expiresAt |-> 0]
  /\ ccPc' = "idle"

\* api.get rejects: the catch block returns what cache.get gives, else the mock facts
requestFails ==
  LET items == cacheGetItem(ccCache, ccReq.namespace, ccReq.params, ccNow)
  IN /\ ccCache' = cacheGetMap(ccCache, ccReq.namespace, ccReq.params, ccNow)
     /\ ccAnswer' = IF items # <<>> THEN answerOf(items)
                    ELSE [from |-> "mock", data |-> ccDone, expiresAt |-> 0]
     /\ ccPc' = "idle"

\* getRecommendedFacts(userId, limit) is called
GetRecommendedFactsStart ==
  /\ ccPc = "idle"
  /\ \E limit \in {"1", "2"} : readThrough("recs", nsRecommendations, userAndLimit(limit))
  /\ UNCHANGED <<ccNow, ccDone>>
  /\ UNCHANGED ccFrame

GetRecommendedFactsOk ==
  /\ ccPc = "recs"
  /\ responseArrives
  /\ UNCHANGED <<ccNow, ccReq, ccDone>>
  /\ UNCHANGED ccFrame

GetRecommendedFactsFail ==
  /\ ccPc = "recs"
  /\ requestFails
  /\ UNCHANGED <<ccNow, ccReq, ccDone>>
  /\ UNCHANGED ccFrame

\* getFacts(params) is called
GetFactsStart ==
  /\ ccPc = "idle"
  /\ \E params \in {userOnly, userAndLimit("1")} : readThrough("facts", nsFacts, params)
  /\ UNCHANGED <<ccNow, ccDone>>
  /\ UNCHANGED ccFrame

GetFactsOk ==
  /\ ccPc = "facts"
  /\ responseArrives
  /\ UNCHANGED <<ccNow, ccReq, ccDone>>
  /\ UNCHANGED ccFrame

GetFactsFail ==
  /\ ccPc = "facts"
  /\ requestFails
  /\ UNCHANGED <<ccNow, ccReq, ccDone>>
  /\ UNCHANGED ccFrame

\* recordInteraction(userId, factId, type) is called: api.post is sent
RecordInteractionStart ==
  /\ ccPc = "idle"
  /\ ccDone.user < MaxWrites
  /\ \E type \in {"like", "dislike", "share", "read"} :
       ccReq' = [op |-> "post", namespace |-> <<>>, params |-> userOnly, type |-> type]
  /\ ccPc' = "post"
  /\ UNCHANGED <<ccCache, ccNow, ccDone, ccAnswer>>
  /\ UNCHANGED ccFrame

\* api.post resolves: the invalidations of recordInteraction run
RecordInteractionOk ==
  /\ ccPc = "post"
  /\ LET first == invalidate(ccCache, nsRecommendations, userOnly)
         second == invalidate(first, nsUser, userOnly)
     IN ccCache' = IF ccReq.type \in {"like", "dislike"}
                     THEN invalidate(second, nsFacts, NoParamsGiven)
                     ELSE second
  /\ ccDone' = [user |-> ccDone.user + 1,
                likes |-> ccDone.likes + (IF ccReq.type \in {"like", "dislike"} THEN 1 ELSE 0)]
  /\ ccPc' = "idle"
  /\ UNCHANGED <<ccNow, ccReq, ccAnswer>>
  /\ UNCHANGED ccFrame

\* api.post rejects: logged, nothing is invalidated
RecordInteractionFail ==
  /\ ccPc = "post"
  /\ ccPc' = "idle"
  /\ UNCHANGED <<ccCache, ccNow, ccReq, ccDone, ccAnswer>>
  /\ UNCHANGED ccFrame

\* updateUserPreferences(userId, preferences) is called: api.put is sent
UpdateUserPreferencesStart ==
  /\ ccPc = "idle"
  /\ ccDone.user < MaxWrites
  /\ ccReq' = [op |-> "prefs", namespace |-> <<>>, params |-> userOnly, type |-> "none"]
  /\ ccPc' = "prefs"
  /\ UNCHANGED <<ccCache, ccNow, ccDone, ccAnswer>>
  /\ UNCHANGED ccFrame

\* api.put resolves: the invalidations of updateUserPreferences run
UpdateUserPreferencesOk ==
  /\ ccPc = "prefs"
  /\ ccCache' = invalidate(invalidate(ccCache, nsUser, userOnly), nsRecommendations, userOnly)
  /\ ccDone' = [ccDone EXCEPT !.user = ccDone.user + 1]
  /\ ccPc' = "idle"
  /\ UNCHANGED <<ccNow, ccReq, ccAnswer>>
  /\ UNCHANGED ccFrame

\* api.put rejects
UpdateUserPreferencesFail ==
  /\ ccPc = "prefs"
  /\ ccPc' = "idle"
  /\ UNCHANGED <<ccCache, ccNow, ccReq, ccDone, ccAnswer>>
  /\ UNCHANGED ccFrame

NextClient ==
  \/ GetRecommendedFactsStart
  \/ GetRecommendedFactsOk
  \/ GetRecommendedFactsFail
  \/ GetFactsStart
  \/ GetFactsOk
  \/ GetFactsFail
  \/ RecordInteractionStart
  \/ RecordInteractionOk
  \/ RecordInteractionFail
  \/ UpdateUserPreferencesStart
  \/ UpdateUserPreferencesOk
  \/ UpdateUserPreferencesFail
  \/ ClientTick

\* a call of `op` returns a cached value in this step
answersFromCache(op) ==
  /\ ccPc \in {"idle", op} /\ ccPc' = "idle"
  /\ ccReq'.op = op
  /\ ccAnswer'.from = "cache"
  /\ ccAnswer' # ccAnswer \/ ccReq' # ccReq \/ ccPc # ccPc'

\* C34: a value getRecommendedFacts returns from the cache was stored after the
\* last completed recordInteraction and updateUserPreferences of the user, and
\* a value getFacts returns from the cache was stored after the last completed
\* like or dislike.
C34_NoAnswerFromEntryStoredBeforeWrite ==
  [][/\ answersFromCache("recs") => ccAnswer'.data.user = ccDone.user
     /\ answersFromCache("facts") => ccAnswer'.data.likes = ccDone.likes]_vars

RECURSIVE namespaceOf(_)
\* key.split(':')[0]
namespaceOf(key) ==
  IF key = <<>> \/ Head(key) = ":" THEN <<>>
  ELSE <<Head(key)>> \o namespaceOf(Tail(key))

\* the keys the cache holds
cachedKeys(cache) == {cache[k].key : k \in 1..Len(cache)}

\* C40: the cache holds at most maxItems entries of each namespace; get returns
\* no entry whose expiry time has passed; and a set on one namespace removes no
\* unexpired entry of another namespace.
C40_CacheBoundedFreshAndNamespaced ==
  /\ [](\A namespace \in Namespaces :
          Cardinality({key \in cachedKeys(ccCache) : namespaceOf(key) = namespace})
            <= maxItemsOf(namespace))
  /\ [][(ccReq'.op = "get" /\ ccAnswer'.from = "cache") => ~(ccNow > ccAnswer'.expiresAt)]_vars
  /\ [][(ccReq'.op = "set" /\ ccNow' = ccNow) =>
          \A k \in 1..Len(ccCache) :
            (namespaceOf(ccCache[k].key) # ccReq'.namespace
             /\ ~(ccNow > ccCache[k].expiresAt))
              => ccCache[k].key \in cachedKeys(ccCache')]_vars

(***************************************************************************)
(* analyzeEngagementPatterns: the day streak (interactions.js).  Days are  *)
(* numbered; a day begins at hour 24 * day (no clock change in between).   *)
(***************************************************************************)

\* a user has at most MaxStreakInteractions interactions
MaxStreakInteractions == 3

\* the calendar days of the interactions: up to four days back, and tomorrow
\* (the timestamp is the caller's)
StreakDays == 1..6
StreakHours == {0, 12, 23}

IdleStreak ==
  /\ skPc = "idle"
  /\ skDays = <<>>
  /\ skNow = 0
  /\ skStreak = 0

\* the interactions are given on day 5, at some hour of the day
InitStreak ==
  /\ skPc = "input"
  /\ skDays \in seqsUpTo(StreakDays, MaxStreakInteractions)
  /\ skNow \in {(5 * 24) + h : h \in StreakHours}
  /\ skStreak = 0

\* Object.keys(patterns.byDay).sort((a, b) => new Date(b) - new Date(a))
sortedDays(days) ==
  LET distinctDays == ascending(Range(days))
  IN sortedBy(distinctDays, distinctDays)

\* Math.floor((previousDate - dayDate) / (1000 * 60 * 60 * 24)), the dates in hours
daysDiff(previousDate, dayDate) == (previousDate - dayDate) \div 24

\* the mutant of continuesStreak: the same day only
continuesStreakSameDay(previousDate, dayDate) == daysDiff(previousDate, dayDate) < 1

\* if (daysDiff <= 1)
continuesStreak(previousDate, dayDate) == daysDiff(previousDate, dayDate) <= 1

RECURSIVE streakFrom(_, _, _, _)
\* the for loop over sortedDays from position k on
streakFrom(days, k, previousDate, currentStreak) ==
  IF k > Len(days) THEN currentStreak
  ELSE IF continuesStreak(previousDate, days[k] * 24)
    THEN streakFrom(days, k + 1, days[k] * 24, currentStreak + 1)
  ELSE currentStreak

\* patterns.streakDays is computed
StreakDaysComputed ==
  /\ skPc = "input"
  /\ skStreak' = streakFrom(sortedDays(skDays), 1, skNow, 0)
  /\ skPc' = "done"
  /\ UNCHANGED <<skDays, skNow>>
  /\ UNCHANGED skFrame

NextStreak == StreakDaysComputed

\* the first n of the distinct days, most recent first, are a run: the first is
\* at most one day before today, each further one at most one day before the
\* one ahead of it
isRun(days, today, n) ==
  /\ n <= Len(days)
  /\ n >= 1 => today - days[1] <= 1
  /\ \A k \in 2..n : days[k - 1] - days[k] <= 1

\* C35: the streak is the length of the longest such run of the user's distinct
\* interaction days; it is 0 without interactions and at most the number of
\* distinct days.
C35_StreakIsLongestRecentRun ==
  skPc = "done" =>
    LET days == sortedDays(skDays)
        today == skNow \div 24
    IN /\ isRun(days, today, skStreak)
       /\ \A n \in 0..Len(days) : isRun(days, today, n) => n <= skStreak
       /\ skDays = <<>> => skStreak = 0
       /\ skStreak <= Cardinality(Range(skDays))

\* C35 witness: interactions today (two of them) and yesterday at 23 o'clock,
\* in any order: a streak of 2
C35_Witness ==
  /\ skPc = "done" /\ skNow = (5 * 24) + 23
  /\ Len(skDays) = 3 /\ Range(skDays) = {4, 5}
  /\ skStreak = 2

(***************************************************************************)
(* The three retrying operations of aws.js: batchGetItems, batchWriteItems *)
(* and performTransactionWrite                                             *)
(***************************************************************************)

NextRetrying == NextBatchGet \/ NextBatchWrite \/ NextTransaction

\* no call of a retrying operation is running
RetryingFinished ==
  /\ bgPc \in {"idle", "done", "thrown"}
  /\ bwPc \in {"idle", "done", "thrown"}
  /\ txPc \in {"idle", "returned", "thrown"}

\* C28: a store request is outstanding only while attempt is below maxRetries;
\* the step that takes its answer, be it complete, with unprocessed keys or
\* items, or an error, raises attempt by exactly 1 (and the next chunk starts
\* again from 0), so a chunk or a transaction sees at most maxRetries requests;
\* every call ends, whatever the store answers.
C28_AtMostMaxRetriesRequests ==
  /\ [](/\ bgPc = "request" => bgAttempt < maxRetries
        /\ bwPc = "request" => bwAttempt < maxRetries
        /\ txPc = "request" => (txAttempt < maxRetries /\ txCalls = txAttempt)
        /\ bgAttempt <= maxRetries /\ bwAttempt <= maxRetries /\ txCalls <= maxRetries)
  /\ [][/\ bgPc = "request" =>
             \/ bgAttempt' = bgAttempt + 1 /\ bgI' = bgI
             \/ bgAttempt' = 0 /\ bgI' = bgI + batchSizeGet
        /\ bwPc = "request" =>
             \/ bwAttempt' = bwAttempt + 1 /\ bwB' = bwB
             \/ bwAttempt' = 0 /\ bwB' = bwB + 1
        /\ (txPc = "request" /\ txPc' # "returned") => txAttempt' = txAttempt + 1
       ]_vars
  /\ <>RetryingFinished

\* C28 witness: the last chunk of a batch-get took maxRetries requests, the
\* last of them answered with unprocessed keys, and the call returned
C28_Witness ==
  /\ bgPc = "done"
  /\ bgAttempt = maxRetries
  /\ bgResp = "partial"
  /\ bgDropped # {}

\* the documented delay before the retry that follows attempt number a
ClaimedDelay(a) == IF 1000 * (2 ^ a) <= 5000 THEN 1000 * (2 ^ a) ELSE 5000

\* C29: when the request of attempt number a (0 for the first request of a
\* chunk or transaction) reports unprocessed keys or items or raises an error
\* and a retry follows, the delay waited is min(1000 * 2^a, 5000) ms, the same
\* in both cases; after the final attempt no delay is waited.
C29_DelayIsDocumentedBackoff ==
  [][/\ (bgPc = "request" /\ bgResp' \in {"partial", "error"}) =>
          bgDelay' = (IF bgAttempt + 1 < maxRetries THEN ClaimedDelay(bgAttempt) ELSE bgDelay)
     /\ (bwPc = "request" /\ bwResp' \in {"partial", "error"}) =>
          bwDelay' = (IF bwAttempt + 1 < maxRetries THEN ClaimedDelay(bwAttempt) ELSE bwDelay)
     /\ (txPc = "request" /\ txPc' = "request") =>
          txDelays' = Append(txDelays, ClaimedDelay(txAttempt))
     /\ (txPc = "request" /\ txPc' # "request") => txDelays' = txDelays
    ]_vars

\* the keys of the chunk of the input that starts at index i (counted from 0)
chunkAt(input, i, size) == {input[j] : j \in {n \in 1..Len(input) : i < n /\ n <= i + size}}

\* no element occurs twice
distinct(q) == \A a, b \in 1..Len(q) : a # b => q[a] # q[b]

\* C30: every batch-get (batch-write) request carries at most batchSizeGet
\* (batchSizeWrite) distinct keys, all of the current chunk of the input, and
\* the first request of a chunk carries the chunk in input order; after an
\* answer with unprocessed keys the next request of the chunk carries keys of
\* the answered request only, the answer's items (writes) are those of the
\* other keys of that request, and no request carries a key whose item was
\* already returned (whose put was already applied).
C30_RequestsCarryUnprocessedOnly ==
  /\ [](bgPc = "request" =>
          /\ Len(bgRemaining) <= batchSizeGet /\ Len(bgRemaining) > 0
          /\ distinct(bgRemaining)
          /\ Range(bgRemaining) \subseteq chunkAt(bgKeys, bgI, batchSizeGet)
          /\ bgAttempt = 0 => bgRemaining = SubSeq(bgKeys, bgI + 1, bgI + Len(bgRemaining))
          /\ Range(bgRemaining) \cap Range(bgResults) = {})
  /\ [](bwPc = "request" =>
          /\ Len(bwRemaining) <= batchSizeWrite /\ Len(bwRemaining) > 0
          /\ distinct(bwRemaining)
          /\ Range(bwRemaining) \subseteq chunkAt(bwItems, bwB * batchSizeWrite, batchSizeWrite)
          /\ bwAttempt = 0 =>
               bwRemaining = SubSeq(bwItems, bwB * batchSizeWrite + 1,
                                    bwB * batchSizeWrite + Len(bwRemaining))
          /\ bwOp = "put" => \A k \in Range(bwRemaining) : bwTable[k] # "new")
  /\ [][/\ (bgPc = "request" /\ bgResp' = "partial" /\ bgPc' = "request" /\ bgI' = bgI) =>
             /\ Range(bgRemaining') \subseteq Range(bgRemaining)
             /\ Range(bgResults') \ Range(bgResults)
                  = (Range(bgRemaining) \ Range(bgRemaining')) \cap bgExisting
        /\ (bwPc = "request" /\ bwResp' = "partial" /\ bwPc' = "request" /\ bwB' = bwB) =>
             /\ Range(bwRemaining') \subseteq Range(bwRemaining)
             /\ \A k \in AllItems :
                  bwTable'[k] # bwTable[k] => k \in Range(bwRemaining) \ Range(bwRemaining')
             /\ \A k \in Range(bwRemaining) \ Range(bwRemaining') :
                  bwTable'[k] = (IF bwOp = "delete" THEN "absent" ELSE "new")
       ]_vars

\* C30 witness: the first request of a full chunk of existing keys was answered
\* with one item and the other key unprocessed; the next request carries that key
C30_Witness ==
  /\ bgPc = "request" /\ bgResp = "partial" /\ bgAttempt = 1 /\ bgI = 0
  /\ Len(bgKeys) > batchSizeGet
  /\ chunkAt(bgKeys, 0, batchSizeGet) \subseteq bgExisting
  /\ Len(bgRemaining) = 1
  /\ Len(bgResults) = batchSizeGet - 1
  /\ Range(bgResults) \cup Range(bgRemaining) = chunkAt(bgKeys, 0, batchSizeGet)

(***************************************************************************)
(* Specifications                                                          *)
(***************************************************************************)

\* the interaction routes serve requests; no data-access call is running
InitLedgerRoutes == InitLedger /\ IdleBatchGet /\ IdleBatchWrite /\ IdlePaginated /\ IdleTransaction
  /\ IdleRecommend /\ IdleMultiQuery /\ IdleFactMutation /\ IdleFeed
  /\ IdleStats /\ IdleTrending /\ IdleSimilarity /\ IdleFeedPage /\ IdleClient /\ IdleStreak

\* one call of batchGetItems; nothing else is running
InitBatchGetCall == InitBatchGet /\ IdleLedger /\ IdleBatchWrite /\ IdlePaginated /\ IdleTransaction
  /\ IdleRecommend /\ IdleMultiQuery /\ IdleFactMutation /\ IdleFeed
  /\ IdleStats /\ IdleTrending /\ IdleSimilarity /\ IdleFeedPage /\ IdleClient /\ IdleStreak

\* one call of batchWriteItems or batchDeleteItems; nothing else is running
InitBatchWriteCall == InitBatchWrite /\ IdleLedger /\ IdleBatchGet /\ IdlePaginated /\ IdleTransaction
  /\ IdleRecommend /\ IdleMultiQuery /\ IdleFactMutation /\ IdleFeed
  /\ IdleStats /\ IdleTrending /\ IdleSimilarity /\ IdleFeedPage /\ IdleClient /\ IdleStreak

\* one call of paginatedQuery; nothing else is running
InitPaginatedCall == InitPaginated /\ IdleLedger /\ IdleBatchGet /\ IdleBatchWrite /\ IdleTransaction
  /\ IdleRecommend /\ IdleMultiQuery /\ IdleFactMutation /\ IdleFeed
  /\ IdleStats /\ IdleTrending /\ IdleSimilarity /\ IdleFeedPage /\ IdleClient /\ IdleStreak

\* one call of performTransactionWrite; nothing else is running
InitTransactionCall ==
  InitTransaction /\ IdleLedger /\ IdleBatchGet /\ IdleBatchWrite /\ IdlePaginated
  /\ IdleRecommend /\ IdleMultiQuery /\ IdleFactMutation /\ IdleFeed
  /\ IdleStats /\ IdleTrending /\ IdleSimilarity /\ IdleFeedPage /\ IdleClient /\ IdleStreak

\* one request to GET /recommendations/:userId; nothing else is running
InitRecommendCall ==
  InitRecommend /\ IdleLedger /\ IdleBatchGet /\ IdleBatchWrite /\ IdlePaginated
  /\ IdleTransaction /\ IdleMultiQuery /\ IdleFactMutation /\ IdleFeed
  /\ IdleStats /\ IdleTrending /\ IdleSimilarity /\ IdleFeedPage /\ IdleClient /\ IdleStreak

\* one call of batchQueryMultipleGSI; nothing else is running
InitMultiQueryCall ==
  InitMultiQuery /\ IdleLedger /\ IdleBatchGet /\ IdleBatchWrite /\ IdlePaginated
  /\ IdleTransaction /\ IdleRecommend /\ IdleFactMutation /\ IdleFeed
  /\ IdleStats /\ IdleTrending /\ IdleSimilarity /\ IdleFeedPage /\ IdleClient /\ IdleStreak

\* the interaction routes, PUT /facts/:id and batchUpdateFactMetrics are ready
InitFactWriters ==
  InitLedger /\ IdleFactMutation /\ IdleBatchGet /\ IdleBatchWrite /\ IdlePaginated
  /\ IdleTransaction /\ IdleRecommend /\ IdleMultiQuery /\ IdleFeed
  /\ IdleStats /\ IdleTrending /\ IdleSimilarity /\ IdleFeedPage /\ IdleClient /\ IdleStreak

\* requests to the interaction routes, one at a time
SpecLedgerSeq == InitLedgerRoutes /\ [][NextLedgerSeq]_vars

\* requests to the interaction routes, concurrently
SpecLedger == InitLedgerRoutes /\ [][NextLedger]_vars

\* one call of batchGetItems
SpecBatchGet == InitBatchGetCall /\ [][NextBatchGet]_vars

\* one call of batchWriteItems or batchDeleteItems
SpecBatchWrite == InitBatchWriteCall /\ [][NextBatchWrite]_vars

\* one call of paginatedQuery
SpecPaginated == InitPaginatedCall /\ [][NextPaginated]_vars

\* one call of paginatedQuery whose awaited store call always settles: the promise
\* of docClient.query resolves or rejects, and the continuation then runs
SpecPaginatedFair == InitPaginatedCall /\ [][NextPaginated]_vars /\ WF_vars(NextPaginated)

\* one call of performTransactionWrite
SpecTransaction == InitTransactionCall /\ [][NextTransaction]_vars

\* one request to GET /recommendations/:userId
SpecRecommend == InitRecommendCall /\ [][NextRecommend]_vars

\* one call of batchQueryMultipleGSI
SpecMultiQuery == InitMultiQueryCall /\ [][NextMultiQuery]_vars

\* the writers of FACTS, one operation at a time
SpecFactWriters == InitFactWriters /\ [][NextFactWriters]_vars

\* requests to GET /facts, one at a time
InitFeedCall ==
  IdleFeed /\ IdleLedger /\ IdleBatchGet /\ IdleBatchWrite /\ IdlePaginated
  /\ IdleTransaction /\ IdleRecommend /\ IdleMultiQuery /\ IdleFactMutation
  /\ IdleStats /\ IdleTrending /\ IdleSimilarity /\ IdleFeedPage /\ IdleClient /\ IdleStreak

SpecFeed == InitFeedCall /\ [][NextFeed]_vars

\* requests of two users to POST /interactions on one item, concurrently
SpecRecords == InitLedgerRoutes /\ [][NextRecords]_vars

\* the interaction routes and GET /stats/:factId are ready
InitStatsRoutes ==
  InitLedger /\ IdleStats /\ IdleBatchGet /\ IdleBatchWrite /\ IdlePaginated
  /\ IdleTransaction /\ IdleRecommend /\ IdleMultiQuery /\ IdleFactMutation /\ IdleFeed
  /\ IdleTrending /\ IdleSimilarity /\ IdleFeedPage /\ IdleClient /\ IdleStreak

\* record and statistics requests, one at a time
SpecStats == InitStatsRoutes /\ [][NextStats]_vars

\* calculateTrendingScore applied to a fact at two ages
InitTrendingCall ==
  InitTrending /\ IdleLedger /\ IdleBatchGet /\ IdleBatchWrite /\ IdlePaginated
  /\ IdleTransaction /\ IdleRecommend /\ IdleMultiQuery /\ IdleFactMutation /\ IdleFeed
  /\ IdleStats /\ IdleSimilarity /\ IdleFeedPage /\ IdleClient /\ IdleStreak

SpecTrending == InitTrendingCall /\ [][NextTrending]_vars

\* calculateSimilarityScore applied to a source and a target fact
InitSimilarityCall ==
  InitSimilarity /\ IdleLedger /\ IdleBatchGet /\ IdleBatchWrite /\ IdlePaginated
  /\ IdleTransaction /\ IdleRecommend /\ IdleMultiQuery /\ IdleFactMutation /\ IdleFeed
  /\ IdleStats /\ IdleTrending /\ IdleFeedPage /\ IdleClient /\ IdleStreak

SpecSimilarity == InitSimilarityCall /\ [][NextSimilarity]_vars

\* one call of batchGetItems, of batchWriteItems or of performTransactionWrite
InitRetryingCall ==
  /\ IdleLedger /\ IdlePaginated /\ IdleRecommend /\ IdleMultiQuery /\ IdleFactMutation
  /\ IdleFeed /\ IdleStats /\ IdleTrending /\ IdleSimilarity
  /\ IdleFeedPage /\ IdleClient /\ IdleStreak
  /\ \/ InitBatchGet /\ IdleBatchWrite /\ IdleTransaction
     \/ IdleBatchGet /\ InitBatchWrite /\ IdleTransaction
     \/ IdleBatchGet /\ IdleBatchWrite /\ InitTransaction

\* a call of a retrying operation whose awaited store request and timer always
\* settle: the promise resolves or rejects, and the continuation then runs
SpecRetrying == InitRetryingCall /\ [][NextRetrying]_vars /\ WF_vars(NextRetrying)

\* one request to GET /facts
InitFeedPageCall ==
  InitFeedPage /\ IdleLedger /\ IdleBatchGet /\ IdleBatchWrite /\ IdlePaginated
  /\ IdleTransaction /\ IdleRecommend /\ IdleMultiQuery /\ IdleFactMutation /\ IdleFeed
  /\ IdleStats /\ IdleTrending /\ IdleSimilarity /\ IdleClient /\ IdleStreak

SpecFeedPage == InitFeedPageCall /\ [][NextFeedPage]_vars

\* the client starts with an empty cache
InitClientCall ==
  IdleClient /\ IdleLedger /\ IdleBatchGet /\ IdleBatchWrite /\ IdlePaginated
  /\ IdleTransaction /\ IdleRecommend /\ IdleMultiQuery /\ IdleFactMutation /\ IdleFeed
  /\ IdleStats /\ IdleTrending /\ IdleSimilarity /\ IdleFeedPage /\ IdleStreak

\* set, get and invalidate called on the cache in any order
SpecCache == InitClientCall /\ [][NextCache]_vars

\* the calls of ApiService, one at a time
SpecClient == InitClientCall /\ [][NextClient]_vars

\* analyzeEngagementPatterns applied to the interactions of a user
InitStreakCall ==
  InitStreak /\ IdleLedger /\ IdleBatchGet /\ IdleBatchWrite /\ IdlePaginated
  /\ IdleTransaction /\ IdleRecommend /\ IdleMultiQuery /\ IdleFactMutation /\ IdleFeed
  /\ IdleStats /\ IdleTrending /\ IdleSimilarity /\ IdleFeedPage /\ IdleClient

SpecStreak == InitStreakCall /\ [][NextStreak]_vars

=============================================================================
